---------------------------- MODULE Spec2Model ----------------------------
(***************************************************************************)
(* Transport and connection-management core of bacpypes (py34):            *)
(*   tcp.py  StreamToPacket, StreamToPacketSAP, TCPClientActor/Director,   *)
(*           TCPServerActor/Director                                       *)
(*   udp.py  UDPActor, UDPDirector                                         *)
(* Each component has its own variables and its own specification; the     *)
(* variables of the other components stay as Init left them.               *)
(***************************************************************************)
EXTENDS Integers, Sequences, FiniteSets, TLC

VARIABLES
    \* ---- StreamToPacket (tcp.py 1066-1165)
    upstreamBuffer,     \* dict peer -> bytes
    downstreamBuffer,   \* dict peer -> bytes
    stpRaised,          \* the exception the last StreamToPacket operation raised
    wire,               \* bytes a peer has put on its connection, not yet read
    sentFrames,         \* the frames a peer has sent on its connection
    delivered,          \* the number of bytes confirmation received from a peer
    stpUp,              \* data of the PDUs passed to response(), by source
    stpDown,            \* data of the PDUs passed to request(), by destination
    stpInputs,          \* frames sent by peers plus PDUs sent downstream so far
    \* ---- the clock of the task manager (FunctionTask.install_task(_time() + t))
    now,
    \* ---- TCPServerDirector and its TCPServerActors (tcp.py 643-1059)
    srvIdleTimeout,     \* director.idle_timeout
    srvActorClass,      \* director.actorClass
    srvSocket,          \* the listening socket: "listening" or "closed"
    srvServers,         \* director.servers: dict peer -> actor
    srvActors,          \* every TCPServerActor constructed so far, by identity
    srvDeferred,        \* deferred(self.server.response, PDU(data)) not yet run
    srvUp,              \* PDUs passed to director.response(), in order
    srvRaised,          \* the exception the last director call raised
    srvEvents,          \* calls and socket events so far (a PDU's data is its number)
    \* ---- UDPDirector and its UDPActors (udp.py)
    udpActorClass,      \* director.actorClass
    udpTimeout,         \* director.timeout
    udpTransport,       \* director.transport: "none", "open" or "closed"
    udpStarting,        \* the start_protocol task has not finished
    udpCloseCalled,     \* director.close() has been called
    udpLost,            \* connection_lost of the transport: "no" (not closing),
                        \* "due" (closed by close()), "dueExc" (closed by a
                        \* fatal error), "done" (called, the socket is released)
    udpPeers,           \* director.peers: dict peer -> actor
    udpActors,          \* every UDPActor constructed so far, by identity
    udpRequest,         \* every PDU actors have put in director.request
    udpTaken,           \* how many of them handle_write has taken from it
    udpStalled,         \* handle_write waits in request.get() (for ever)
    udpSent,            \* datagrams the socket has taken, in order
    udpDeferred,        \* deferred(self.director.response, PDU(...)) not yet run
    udpUp,              \* PDUs passed upstream by director.response, in order
    udpErrors,          \* director.handle_error calls so far
    udpEvents,          \* calls and socket events so far (a PDU's data is its number)
    \* ---- TCPClientDirector and its TCPClientActors (tcp.py)
    cliConnectTimeout,  \* director.connect_timeout (0: None)
    cliIdleTimeout,     \* director.idle_timeout (0: None)
    cliClients,         \* director.clients: dict peer -> actor
    cliReconnect,       \* director.reconnect: dict peer -> seconds
    cliActors,          \* every TCPClientActor constructed so far, by identity
    cliTasks,           \* installed FunctionTask(self.connect, peer): peer, when
    cliRaised,          \* the exception the last call or callback raised
    cliUp,              \* PDUs passed upstream by director.response, in order
    cliEvents,          \* calls and socket events so far (a PDU's data is its number)
    cliBirth,           \* history: how and when each actor was created
    cliClean,           \* history: per peer, connect(peer, reconnect > 0) made
                        \* its actor and no connect or indication came since
    cliDisconnected,    \* history: per peer, disconnect(peer) was the last
                        \* of disconnect(peer) and connect(peer, reconnect > 0)
    cliRemovedAt,       \* history: per peer, when del_actor last removed it
    \* ---- the constructor of TCPServerDirector binding its socket (tcp.py)
    bindReuse,          \* the reuse argument
    bindPhase,          \* "try", "sleep", "listening", "listenError", "failed"
    bindI,              \* the loop variable i: failed attempts so far
    bindCalls,          \* history: socket.bind calls so far
    bindErr,            \* the errno of the last bind error
    bindHadErrors,      \* hadBindErrors
    bindSlept,          \* seconds spent in _sleep
    \* ---- one WaitableEvent and the event loop it is registered with
    \*      (event_modern.py)
    evPipe,             \* bytes in the pipe between _write_fd and _read_fd
    evEvent,            \* the flag of self._event (asyncio.Event)
    evReady,            \* the loop found _read_fd readable and has the
                        \* callback _handle_read in its ready queue
    evStalled,          \* the loop's thread is blocked in os.read
    evCalls             \* history: the set() and clear() calls, in order

stpVars == <<upstreamBuffer, downstreamBuffer, stpRaised, wire, sentFrames,
             delivered, stpUp, stpDown, stpInputs>>

\* what the constructor of the server director was given
srvConfig == <<srvIdleTimeout, srvActorClass>>

srvVars == <<srvConfig, srvSocket, srvServers, srvActors, srvDeferred,
             srvUp, srvRaised, srvEvents>>

udpVars == <<udpActorClass, udpTimeout, udpTransport, udpStarting,
             udpCloseCalled, udpLost, udpPeers,
             udpActors, udpRequest, udpTaken, udpStalled, udpSent,
             udpDeferred, udpUp, udpErrors, udpEvents>>

cliVars == <<cliConnectTimeout, cliIdleTimeout, cliClients, cliReconnect,
             cliActors, cliTasks, cliRaised, cliUp, cliEvents,
             cliBirth, cliClean, cliDisconnected, cliRemovedAt>>

bindVars == <<bindReuse, bindPhase, bindI, bindCalls, bindErr, bindHadErrors,
              bindSlept>>

evVars == <<evPipe, evEvent, evReady, evStalled, evCalls>>

vars == <<stpVars, now, srvVars, udpVars, cliVars, bindVars, evVars>>

-----------------------------------------------------------------------------
\* Addresses and the absent value
Addr == {"a1", "a2"}
None == "None"

\* ---- bounds
MaxInputs == 3      \* frames the peers send plus PDUs sent downstream, per run
MaxChunk == 2       \* bytes of the largest chunk one PDU carries upstream
MaxTime == 2        \* the clock stops here
MaxEvents == 3      \* calls and socket events of the UDP director in one run
MaxSrvEvents == 3   \* calls and socket events of the server director in one run
MaxEvCalls == 5     \* set() and clear() calls on the WaitableEvent, per run
MaxCalls == 3       \* calls and socket events of the client director in one run

\* idle_timeout values a director is constructed with (0: no idle timer)
IdleTimeouts == {0, 1}
\* FunctionTask not scheduled
NoTime == -1

\* The frames a peer may send: payloads whose bytes are themselves valid
\* length bytes, so that a misaligned buffer would be framed wrongly.
FramePool == {<<>>, <<1>>, <<2, 1>>}
\* What the application hands to StreamToPacket.indication in one PDU
DownChunks == {<<1>>, <<1, 2>>, <<0, 1, 1, 2>>}

-----------------------------------------------------------------------------
\* Python dict operations on functions with a finite domain
DictGet(d, k, dflt) == IF k \in DOMAIN d THEN d[k] ELSE dflt
DictSet(d, k, v) == [x \in (DOMAIN d) \cup {k} |-> IF x = k THEN v ELSE d[x]]
DictDel(d, k) == [x \in (DOMAIN d) \ {k} |-> d[x]]
EmptyDict == [x \in {} |-> 0]

RECURSIVE Concat(_)
Concat(ss) == IF ss = <<>> THEN <<>> ELSE Head(ss) \o Concat(Tail(ss))

Last(s) == s[Len(s)]

\* PDU(data, source=, destination=)
PDU(data, src, dst) == [data |-> data, source |-> src, destination |-> dst]

-----------------------------------------------------------------------------
\* The framer handed to StreamToPacket: one length byte, then the payload.
\* ok = FALSE is the framer's None (no complete frame in buf).
LengthFramer(buf) ==
    IF Len(buf) >= 1 /\ Len(buf) >= 1 + buf[1]
    THEN [ok |-> TRUE, frame |-> SubSeq(buf, 2, 1 + buf[1]),
          rest |-> SubSeq(buf, 2 + buf[1], Len(buf))]
    ELSE [ok |-> FALSE, frame |-> <<>>, rest |-> buf]

packetFn(buf) == LengthFramer(buf)

\* the peer's side of the framer
Encode(f) == <<Len(f)>> \o f

\* chop's while loop: the PDUs yielded and the buff left over
RECURSIVE ChopLoop(_, _, _)
ChopLoop(buff, pdu, out) ==
    LET packet == packetFn(buff) IN
    IF ~packet.ok
    THEN [out |-> out, buff |-> buff]
    ELSE ChopLoop(packet.rest, pdu,
                  Append(out, PDU(packet.frame, pdu.source, pdu.destination)))

\* a chop that forgets the partial frame instead of keeping it
ChopSaveDropsRest(streamBuffer, addr, buff) == DictSet(streamBuffer, addr, <<>>)

\* "save what didn't get sent"
ChopSave(streamBuffer, addr, buff) == DictSet(streamBuffer, addr, buff)

\* a chop that frames the new data alone and overwrites the buffer
ChopIgnoresBuffer(addr, pdu, streamBuffer) ==
    LET r == ChopLoop(pdu.data, pdu, <<>>)
    IN  [out |-> r.out, sb |-> ChopSave(streamBuffer, addr, r.buff)]

\* packetize.chop(addr), with pdu the binding of the enclosing packetize
Chop(addr, pdu, streamBuffer) ==
    LET r == ChopLoop(DictGet(streamBuffer, addr, <<>>) \o pdu.data, pdu, <<>>)
    IN  [out |-> r.out, sb |-> ChopSave(streamBuffer, addr, r.buff)]

\* StreamToPacket.packetize: the loop "for pdu in chop(pdu.pduSource)"
\* rebinds pdu, so the destination pass sees the last PDU the source pass
\* yielded (same addresses, its data the last frame).
Packetize(pdu, streamBuffer) ==
    LET r1 == IF pdu.source # None
              THEN Chop(pdu.source, pdu, streamBuffer)
              ELSE [out |-> <<>>, sb |-> streamBuffer]
        pdu2 == IF r1.out # <<>> THEN Last(r1.out) ELSE pdu
        r2 == IF pdu2.destination # None
              THEN Chop(pdu2.destination, pdu2, r1.sb)
              ELSE [out |-> <<>>, sb |-> r1.sb]
    IN  [out |-> r1.out \o r2.out, sb |-> r2.sb]

\* the data of the PDUs of out, appended to the log of their source
RECURSIVE LogBySource(_, _)
LogBySource(log, out) ==
    IF out = <<>> THEN log
    ELSE LogBySource(
           IF Head(out).source \in DOMAIN log
           THEN [log EXCEPT ![Head(out).source] = Append(@, Head(out).data)]
           ELSE log,
           Tail(out))

RECURSIVE LogByDestination(_, _)
LogByDestination(log, out) ==
    IF out = <<>> THEN log
    ELSE LogByDestination(
           IF Head(out).destination \in DOMAIN log
           THEN [log EXCEPT ![Head(out).destination] = Append(@, Head(out).data)]
           ELSE log,
           Tail(out))

-----------------------------------------------------------------------------
\* StreamToPacket.__init__
STPInit ==
    /\ upstreamBuffer = EmptyDict
    /\ downstreamBuffer = EmptyDict
    /\ stpRaised = None
    /\ wire = [p \in Addr |-> <<>>]
    /\ sentFrames = [p \in Addr |-> <<>>]
    /\ delivered = [p \in Addr |-> 0]
    /\ stpUp = [p \in Addr |-> <<>>]
    /\ stpDown = [p \in Addr |-> <<>>]
    /\ stpInputs = 0

\* The peer p writes one frame to its connection.
PeerSend(p, f) ==
    /\ stpInputs < MaxInputs
    /\ stpInputs' = stpInputs + 1
    /\ wire' = [wire EXCEPT ![p] = @ \o Encode(f)]
    /\ sentFrames' = [sentFrames EXCEPT ![p] = Append(@, f)]
    /\ UNCHANGED <<upstreamBuffer, downstreamBuffer, stpRaised, delivered,
                   stpUp, stpDown, now, srvVars, udpVars, cliVars, bindVars, evVars>>

\* StreamToPacket.confirmation(pdu): the director read k bytes from p's
\* connection and passed them up with pduSource = p.
STPConfirmation(p, k) ==
    /\ k <= Len(wire[p])
    /\ LET pdu == PDU(SubSeq(wire[p], 1, k), p, None)
           r == Packetize(pdu, upstreamBuffer)
       IN  /\ upstreamBuffer' = r.sb
           /\ stpUp' = LogBySource(stpUp, r.out)
    /\ wire' = [wire EXCEPT ![p] = SubSeq(@, k + 1, Len(@))]
    /\ delivered' = [delivered EXCEPT ![p] = @ + k]
    /\ stpRaised' = None
    /\ UNCHANGED <<downstreamBuffer, sentFrames, stpDown, stpInputs, now,
                   srvVars, udpVars, cliVars, bindVars, evVars>>

\* StreamToPacket.indication(pdu): the application sends data to d, in a
\* PDU whose pduSource is s (None: not set).
STPIndication(s, d, data) ==
    /\ stpInputs < MaxInputs
    /\ stpInputs' = stpInputs + 1
    /\ LET r == Packetize(PDU(data, s, d), downstreamBuffer)
       IN  /\ downstreamBuffer' = r.sb
           /\ stpDown' = LogByDestination(stpDown, r.out)
    /\ stpRaised' = None
    /\ UNCHANGED <<upstreamBuffer, wire, sentFrames, delivered, stpUp, now,
                   srvVars, udpVars, cliVars, bindVars, evVars>>

\* StreamToPacketSAP.indication(add_actor=actor): a connection to p opened.
SAPAddActor(p) ==
    /\ upstreamBuffer' = DictSet(upstreamBuffer, p, <<>>)
    /\ downstreamBuffer' = DictSet(downstreamBuffer, p, <<>>)
    /\ stpRaised' = None
    /\ wire' = [wire EXCEPT ![p] = <<>>]
    /\ sentFrames' = [sentFrames EXCEPT ![p] = <<>>]
    /\ delivered' = [delivered EXCEPT ![p] = 0]
    /\ stpUp' = [stpUp EXCEPT ![p] = <<>>]
    /\ stpDown' = [stpDown EXCEPT ![p] = <<>>]
    /\ UNCHANGED <<stpInputs, now, srvVars, udpVars, cliVars, bindVars, evVars>>

\* StreamToPacketSAP.indication(del_actor=actor): the connection to p is
\* gone.  "del d[k]" raises KeyError when k is not a key, and the statements
\* after it do not run.
SAPDelActor(p) ==
    /\ IF p \notin DOMAIN upstreamBuffer
       THEN /\ stpRaised' = "KeyError"
            /\ UNCHANGED <<upstreamBuffer, downstreamBuffer>>
       ELSE /\ upstreamBuffer' = DictDel(upstreamBuffer, p)
            /\ IF p \notin DOMAIN downstreamBuffer
               THEN /\ stpRaised' = "KeyError"
                    /\ UNCHANGED downstreamBuffer
               ELSE /\ stpRaised' = None
                    /\ downstreamBuffer' = DictDel(downstreamBuffer, p)
    /\ wire' = [wire EXCEPT ![p] = <<>>]
    /\ sentFrames' = [sentFrames EXCEPT ![p] = <<>>]
    /\ delivered' = [delivered EXCEPT ![p] = 0]
    /\ stpUp' = [stpUp EXCEPT ![p] = <<>>]
    /\ stpDown' = [stpDown EXCEPT ![p] = <<>>]
    /\ UNCHANGED <<stpInputs, now, srvVars, udpVars, cliVars, bindVars, evVars>>

STPNext ==
    \/ \E p \in Addr, f \in FramePool : PeerSend(p, f)
    \/ \E p \in Addr, k \in 1..MaxChunk : STPConfirmation(p, k)
    \/ \E s \in Addr \cup {None}, d \in Addr, data \in DownChunks :
           STPIndication(s, d, data)
    \/ \E p \in Addr : SAPAddActor(p)
    \/ \E p \in Addr : SAPDelActor(p)


-----------------------------------------------------------------------------
\* The task manager (task.py, not among the sources): a FunctionTask fires
\* once when the clock reaches the time it was installed for; install_task
\* on a scheduled task moves it, suspend_task unschedules it.
install_task(when) == when
suspend_task == NoTime
Due(when) == when # NoTime /\ when <= now

-----------------------------------------------------------------------------
\* TCPServerActor.  Of the methods defined twice in the class body the later
\* definition is the one the class has: idle_timeout (843), indication (849),
\* response (864), flush (882); handle_close is the one at 778.
\* TCPServer.request is b'' from __init__ on and nothing assigns it, so
\* flush() never finds data in it and flush_task is always None.
\*
\* self.transport is the socket transport create_connection made.  Of it
\* the actor record keeps
\*   transport  "none" (self.transport is None), "open", or "closed" once
\*              close() was called on it or an error closed it;
\*   pending    data written to it waits in its buffer for the peer;
\*   connLost   it drops what is written to it (it was closed with nothing
\*              pending, or by an error);
\*   lost       connection_lost of the protocol: "no", "due" (the loop will
\*              call it with None), "dueExc" (with the error), or "done".

\* the actor classes a director is constructed with
SrvActorClasses == {"TCPServerActor", "TCPPickleServerActor"}

\* what the layer above puts into a PDU: some data, or no data at all (b'')
PduKinds == {"data", "empty"}

\* PickleActorMixIn.indication (44-51): pdu.pduData = pickle.dumps(...), and
\* the pickle of an empty value is not empty; the data of a PDU is the
\* number of the event that brought it
SrvPduData(kind, n) ==
    IF srvActorClass = "TCPPickleServerActor"
    THEN [form |-> "pickle", n |-> n]
    ELSE IF kind = "empty" THEN [form |-> "empty", n |-> n]
    ELSE [form |-> "bytes", n |-> n]

\* TCPServerActor.__init__ up to "tell the director this is a new actor"
NewServerActor(peer) ==
    [peer |-> peer,
     transport |-> "none",          \* self.transport = None
     pending |-> FALSE,
     connLost |-> FALSE,
     lost |-> "no",
     serving |-> TRUE,              \* the start_serving task has not finished
     idle_timeout |-> srvIdleTimeout,
     idleObj |-> srvIdleTimeout # 0, \* self.idle_timeout_task is not None
     idleWhen |-> IF srvIdleTimeout # 0
                  THEN install_task(now + srvIdleTimeout) ELSE NoTime,
     closes |-> 0,                  \* handle_close() calls
     lateRuns |-> 0,                \* timer callbacks run after handle_close()
     adds |-> 0, dels |-> 0, errs |-> 0,  \* sap_request notifications
     written |-> <<>>,              \* data the transport took in write()
     sources |-> <<>>]              \* history: pduSource of each PDU when
                                    \* indication() is done with it

\* TCPServerDirector.add_actor
SrvAddActor(st, i) ==
    [servers |-> DictSet(st.servers, st.actors[i].peer, i),
     actors |-> [st.actors EXCEPT ![i].adds = @ + 1]]

\* TCPServerDirector.del_actor: the KeyError of del is caught, and the
\* observer is told in either case
SrvDelActor(st, i) ==
    [servers |-> DictDel(st.servers, st.actors[i].peer),
     actors |-> [st.actors EXCEPT ![i].dels = @ + 1]]

\* TCPServer.close: self.transport.close() if there is a transport.  close()
\* of a transport that is closed does nothing; with nothing pending the
\* transport drops later writes and the loop will call connection_lost(None),
\* with data pending it goes on sending and takes what is written.
SrvActorClose(a) ==
    IF a.transport # "open" THEN a
    ELSE [a EXCEPT !.transport = "closed",
                   !.connLost = ~a.pending,
                   !.lost = IF a.pending THEN "no" ELSE "due"]

\* A socket error closes the transport (from the read or write callback of
\* the loop, or inside write()): what is pending is dropped and the loop will
\* call connection_lost(exc)
SrvTransportError(a) ==
    [a EXCEPT !.transport = "closed", !.pending = FALSE,
              !.connLost = TRUE, !.lost = "dueExc"]

\* TCPServerActor.handle_close (778-793)
SrvHandleClose(st, i) ==
    LET a1 == [st.actors[i] EXCEPT
                   !.idleWhen = IF st.actors[i].idle_timeout # 0
                                THEN suspend_task ELSE @,
                   !.closes = @ + 1]
        st2 == SrvDelActor([st EXCEPT !.actors[i] = a1], i)
    IN  [st2 EXCEPT !.actors[i] = SrvActorClose(@)]

\* the director's state the actor methods work on
SrvState == [servers |-> srvServers, actors |-> srvActors]

SrvInit ==
    /\ srvIdleTimeout \in IdleTimeouts
    /\ srvActorClass \in SrvActorClasses
    /\ srvSocket = "listening"
    /\ srvServers = EmptyDict
    /\ srvActors = <<>>
    /\ srvDeferred = <<>>
    /\ srvUp = <<>>
    /\ srvRaised = None
    /\ srvEvents = 0

\* TCPServerDirector.start_serving: sock_accept returned a connection from
\* peer.  The actor's constructor calls director.add_actor, and start_serving
\* calls self.add_actor(actor) again.  The peer may have reset an earlier
\* connection and connected again from the same address and port before the
\* loop has seen the earlier connection end.
SrvAccept(peer) ==
    /\ srvSocket = "listening"
    /\ srvEvents < MaxSrvEvents
    /\ srvEvents' = srvEvents + 1
    /\ LET i == Len(srvActors) + 1
           st0 == [servers |-> srvServers,
                   actors |-> Append(srvActors, NewServerActor(peer))]
           st1 == SrvAddActor(st0, i)
           st2 == SrvAddActor(st1, i)
       IN  /\ srvServers' = st2.servers
           /\ srvActors' = st2.actors
    /\ srvRaised' = None
    /\ UNCHANGED <<srvConfig, srvSocket, srvDeferred, srvUp, now,
                   stpVars, udpVars, cliVars, bindVars, evVars>>

\* TCPServerActor.start_serving completes: TCPServerProtocol.connection_made
SrvConnectionMade(i) ==
    /\ srvActors[i].serving
    /\ srvActors' = [srvActors EXCEPT ![i].serving = FALSE,
                                      ![i].transport = "open"]
    /\ UNCHANGED <<srvConfig, srvSocket, srvServers, srvDeferred, srvUp,
                   srvRaised, srvEvents, now, stpVars, udpVars, cliVars,
                   bindVars, evVars>>

\* TCPServerActor.start_serving fails: handle_error(err), which only tells
\* the director (771-776)
SrvServeError(i) ==
    /\ srvEvents < MaxSrvEvents
    /\ srvEvents' = srvEvents + 1
    /\ srvActors[i].serving
    /\ srvActors' = [srvActors EXCEPT ![i].serving = FALSE,
                                      ![i].errs = @ + 1]
    /\ UNCHANGED <<srvConfig, srvSocket, srvServers, srvDeferred, srvUp,
                   srvRaised, now, stpVars, udpVars, cliVars, bindVars, evVars>>

\* deferred(self.server.response, PDU(data)): the call joins those waiting
\* to be run.  The list keeps them in the order of the calls of deferred.
SrvDeferResponse(queue, i, data) ==
    Append(queue, [actor |-> i, data |-> data])

\* The deferred calls the loop may run next.  The order in which deferred
\* calls are run is not fixed here: any call that waits may be the next.
SrvDeferredNext(queue) == 1..Len(queue)

\* a list without its k-th element
SrvDeferredWithout(queue, k) ==
    SubSeq(queue, 1, k - 1) \o SubSeq(queue, k + 1, Len(queue))

\* TCPServerProtocol.data_received: the delivery is deferred.  The loop reads
\* from the socket of a transport that is open.
SrvDataReceived(i) ==
    /\ srvActors[i].transport = "open"
    /\ srvEvents < MaxSrvEvents
    /\ srvEvents' = srvEvents + 1
    /\ srvDeferred' = SrvDeferResponse(srvDeferred, i, srvEvents + 1)
    /\ UNCHANGED <<srvConfig, srvSocket, srvServers, srvActors, srvUp,
                   srvRaised, now, stpVars, udpVars, cliVars, bindVars, evVars>>

\* The peer ended its side and the loop read end of file: TCPServerProtocol
\* has the eof_received of asyncio.Protocol, so the transport is closed as
\* by close().  No method of the actor runs.
SrvEofReceived(i) ==
    /\ srvActors[i].transport = "open"
    /\ srvEvents < MaxSrvEvents
    /\ srvEvents' = srvEvents + 1
    /\ srvActors' = [srvActors EXCEPT ![i] = SrvActorClose(@)]
    /\ UNCHANGED <<srvConfig, srvSocket, srvServers, srvDeferred, srvUp,
                   srvRaised, now, stpVars, udpVars, cliVars, bindVars, evVars>>

\* The loop's read of the socket (transport open) or its send of pending
\* data fails, as after a reset by the peer: the transport is closed at once;
\* connection_lost(exc) comes in a later callback.
SrvSocketError(i) ==
    /\ srvActors[i].transport # "none"
    /\ ~srvActors[i].connLost
    /\ srvActors[i].transport = "open" \/ srvActors[i].pending
    /\ srvEvents < MaxSrvEvents
    /\ srvEvents' = srvEvents + 1
    /\ srvActors' = [srvActors EXCEPT ![i] = SrvTransportError(@)]
    /\ UNCHANGED <<srvConfig, srvSocket, srvServers, srvDeferred, srvUp,
                   srvRaised, now, stpVars, udpVars, cliVars, bindVars, evVars>>

\* The peer has read what was pending.  A transport that close() was called
\* on calls connection_lost(None) at this moment and releases its socket; it
\* does not become one that drops writes.
SrvWriteReady(i) ==
    /\ srvActors[i].pending
    /\ srvActors' = [srvActors EXCEPT
                        ![i].pending = FALSE,
                        ![i].lost = IF srvActors[i].transport = "closed"
                                    THEN "done" ELSE @]
    /\ UNCHANGED <<srvConfig, srvSocket, srvServers, srvDeferred, srvUp,
                   srvRaised, srvEvents, now, stpVars, udpVars, cliVars,
                   bindVars, evVars>>

\* TCPServerProtocol.connection_lost(exc), a callback of the loop after the
\* transport was closed: with an exception, handle_error tells the director.
\* The actor is not closed.
SrvConnectionLost(i) ==
    /\ srvActors[i].lost \in {"due", "dueExc"}
    /\ srvActors' = [srvActors EXCEPT
                        ![i].lost = "done",
                        ![i].errs = IF srvActors[i].lost = "dueExc"
                                    THEN @ + 1 ELSE @]
    /\ UNCHANGED <<srvConfig, srvSocket, srvServers, srvDeferred, srvUp,
                   srvRaised, srvEvents, now, stpVars, udpVars, cliVars,
                   bindVars, evVars>>

\* a response that passes the PDU on as the protocol made it
SrvResponseKeepsSource(a, data) ==
    [actor |-> [a EXCEPT !.idleWhen = IF a.idleObj
                                      THEN install_task(now + a.idle_timeout)
                                      ELSE @],
     up |-> [source |-> None, data |-> data]]

\* TCPServerActor.response (864-880)
SrvResponse(a, data) ==
    [actor |-> [a EXCEPT !.idleWhen = IF a.idleObj
                                      THEN install_task(now + a.idle_timeout)
                                      ELSE @],
     up |-> [source |-> a.peer, data |-> data]]

\* self.server.response(pdu) of the actor class of the director.  The
\* response of a TCPPickleServerActor is PickleActorMixIn.response (53-83),
\* which adds the bytes received to the str pickleBuffer: TypeError, and the
\* call ends there.  up is the list of the PDUs passed upstream.
SrvServerResponse(a, data) ==
    IF srvActorClass = "TCPPickleServerActor"
    THEN [actor |-> a, up |-> <<>>]
    ELSE LET r == SrvResponse(a, data)
         IN  [actor |-> r.actor, up |-> <<r.up>>]

\* The k-th deferred call runs
SrvRunDeferred(k) ==
    /\ k \in SrvDeferredNext(srvDeferred)
    /\ LET d == srvDeferred[k]
           r == SrvServerResponse(srvActors[d.actor], d.data)
       IN  /\ srvActors' = [srvActors EXCEPT ![d.actor] = r.actor]
           /\ srvUp' = srvUp \o r.up
    /\ srvDeferred' = SrvDeferredWithout(srvDeferred, k)
    /\ UNCHANGED <<srvConfig, srvSocket, srvServers, srvRaised,
                   srvEvents, now, stpVars, udpVars, cliVars, bindVars, evVars>>

\* what the socket does with data the transport sends at once in write():
\* it takes all of it, it takes part or none (the rest is pending), or the
\* send fails
WriteOutcomes == {"sent", "buffered", "error"}

\* TCPServer.indication (685-700): transport.write(data) when there is a
\* transport.  write returns at once when data is empty, whatever the state
\* of the transport, and so does a transport that drops writes.  One that
\* called connection_lost after sending what was pending has no socket: write
\* raises, and handle_error tells the director.  With data pending the
\* transport adds to it; otherwise it sends at once, with outcome out.
SrvWrite(a, data, out) ==
    IF a.transport = "none" \/ data.form = "empty" \/ a.connLost THEN a
    ELSE IF a.lost = "done" THEN [a EXCEPT !.errs = @ + 1]
    ELSE IF a.pending \/ out = "sent"
         THEN [a EXCEPT !.written = Append(@, data)]
    ELSE IF out = "buffered"
         THEN [a EXCEPT !.written = Append(@, data), !.pending = TRUE]
    ELSE SrvTransportError(a)

\* the transport of a sends at once what is written to it
SrvSendsAtOnce(a) ==
    a.transport = "open" /\ ~a.pending

\* pduSource values of the PDUs given to indication (None: not supplied)
Sources == {None, "app"}

\* TCPServerActor.indication (849-862), the definition the class has; it
\* leaves pdu.pduSource as it is
SrvActorIndication(a, kind, data, src, out) ==
    SrvWrite([a EXCEPT !.idleWhen = IF a.idleObj
                                    THEN install_task(now + a.idle_timeout)
                                    ELSE @,
                       !.sources = Append(@, src)],
             SrvPduData(kind, data), out)

\* a director that makes an actor for a destination it has none for
SrvIndicationDials(st, dst, kind, data, src, out) ==
    LET i == IF dst \in DOMAIN st.servers THEN st.servers[dst]
             ELSE Len(st.actors) + 1
        s1 == IF dst \in DOMAIN st.servers THEN st
              ELSE SrvAddActor([st EXCEPT !.actors =
                                   Append(@, NewServerActor(dst))], i)
    IN  [raised |-> None, servers |-> s1.servers,
         actors |-> [s1.actors EXCEPT ![i] =
                        SrvActorIndication(@, kind, data, src, out)]]

\* TCPServerDirector.indication (1046-1059)
SrvDirectorIndication(st, dst, kind, data, src, out) ==
    IF dst \notin DOMAIN st.servers
    THEN [raised |-> "RuntimeError",    \* "not a connected server"
          servers |-> st.servers, actors |-> st.actors]
    ELSE [raised |-> None, servers |-> st.servers,
          actors |-> [st.actors EXCEPT ![st.servers[dst]] =
                         SrvActorIndication(@, kind, data, src, out)]]

\* The layer above sends a PDU to dst with pduSource src; out is the outcome
\* of the send when the transport of the actor of dst sends at once, which
\* it does with data that is not empty
SrvIndication(dst, kind, src, out) ==
    /\ out # "sent" => /\ dst \in DOMAIN srvServers
                       /\ SrvSendsAtOnce(srvActors[srvServers[dst]])
                       /\ SrvPduData(kind, 0).form # "empty"
    /\ srvEvents < MaxSrvEvents
    /\ srvEvents' = srvEvents + 1
    /\ LET r == SrvDirectorIndication(SrvState, dst, kind, srvEvents + 1,
                                      src, out)
       IN  /\ srvRaised' = r.raised
           /\ srvServers' = r.servers
           /\ srvActors' = r.actors
    /\ UNCHANGED <<srvConfig, srvSocket, srvDeferred, srvUp, now,
                   stpVars, udpVars, cliVars, bindVars, evVars>>

\* The idle timer of actor i fires: TCPServerActor.idle_timeout (843-847)
SrvIdleFire(i) ==
    /\ Due(srvActors[i].idleWhen)
    /\ LET fired == [srvActors EXCEPT
                        ![i].idleWhen = NoTime,
                        ![i].lateRuns = IF srvActors[i].closes > 0
                                        THEN @ + 1 ELSE @]
           st == SrvHandleClose([servers |-> srvServers, actors |-> fired], i)
       IN  /\ srvServers' = st.servers
           /\ srvActors' = st.actors
    /\ UNCHANGED <<srvConfig, srvSocket, srvDeferred, srvUp, srvRaised,
                   srvEvents, now, stpVars, udpVars, cliVars, bindVars, evVars>>

\* The application calls actor.flush() (882-894) on an actor it was told of
\* by add_actor, whether or not handle_close has run on it
SrvFlush(i) ==
    /\ srvEvents < MaxSrvEvents
    /\ srvEvents' = srvEvents + 1
    /\ LET st == SrvHandleClose(SrvState, i)
       IN  /\ srvServers' = st.servers
           /\ srvActors' = st.actors
    /\ UNCHANGED <<srvConfig, srvSocket, srvDeferred, srvUp, srvRaised,
                   now, stpVars, udpVars, cliVars, bindVars, evVars>>

\* TCPServerDirector.close (978-980): self.socket.close()
SrvClose ==
    /\ srvEvents < MaxSrvEvents
    /\ srvEvents' = srvEvents + 1
    /\ srvSocket = "listening"
    /\ srvSocket' = "closed"
    /\ UNCHANGED <<srvConfig, srvServers, srvActors, srvDeferred, srvUp,
                   srvRaised, now, stpVars, udpVars, cliVars, bindVars, evVars>>

\* The clock advances to the time of an installed task: it moves while some
\* task is installed and none is due.
SrvTick ==
    /\ now < MaxTime
    /\ \E i \in 1..Len(srvActors) : srvActors[i].idleWhen # NoTime
    /\ \A i \in 1..Len(srvActors) : ~Due(srvActors[i].idleWhen)
    /\ now' = now + 1
    /\ UNCHANGED <<srvVars, stpVars, udpVars, cliVars, bindVars, evVars>>

SrvNext ==
    \/ \E peer \in Addr : SrvAccept(peer)
    \/ \E i \in 1..Len(srvActors) : SrvConnectionMade(i)
    \/ \E i \in 1..Len(srvActors) : SrvServeError(i)
    \/ \E i \in 1..Len(srvActors) : SrvDataReceived(i)
    \/ \E i \in 1..Len(srvActors) : SrvEofReceived(i)
    \/ \E i \in 1..Len(srvActors) : SrvSocketError(i)
    \/ \E i \in 1..Len(srvActors) : SrvWriteReady(i)
    \/ \E i \in 1..Len(srvActors) : SrvConnectionLost(i)
    \/ \E k \in 1..Len(srvDeferred) : SrvRunDeferred(k)
    \/ \E dst \in Addr, kind \in PduKinds, src \in Sources,
          out \in WriteOutcomes : SrvIndication(dst, kind, src, out)
    \/ \E i \in 1..Len(srvActors) : SrvFlush(i)
    \/ \E i \in 1..Len(srvActors) : SrvIdleFire(i)
    \/ SrvClose
    \/ SrvTick

-----------------------------------------------------------------------------
\* UDPDirector.  handle_error is defined twice in the class body (215 and
\* 318); the class has the later one, which does nothing.  The loop drives
\* the director through UDPDirectorProtocol; the methods kept from the
\* asyncore implementation that work on the queue and on the actors
\* (handle_write, _response) are public and are calls of the application.

\* the actor classes a director is constructed with
UdpActorClasses == {"UDPActor", "UDPPickleActor"}

\* Payloads: an object of the application, no data at all (b''), the pickle
\* of one of these, or bytes that are not a pickle; n is the number of the
\* event that brought the payload.
Value(n) == [form |-> "value", n |-> n]
Empty(n) == [form |-> "empty", n |-> n]
Garbage(n) == [form |-> "garbage", n |-> n]
\* pickle.dumps: the pickle keeps what was pickled, and is never empty
PickleDumps(v) == [form |-> "pickle", n |-> v.n, of |-> v.form]
\* pickle.loads of a pickle
PickleLoads(d) == [form |-> d.of, n |-> d.n]

\* what the layer above puts into the n-th PDU
UdpPayload(kind, n) == IF kind = "empty" THEN Empty(n) ELSE Value(n)

\* what datagram_received hands over for an arriving datagram
Received(form, n) == IF form = "pickle" THEN PickleDumps(Value(n)) ELSE Garbage(n)

\* UDPPickleActor.indication (122-129): pdu.pduData = pickle.dumps(...)
UdpPduData(v) == IF udpActorClass = "UDPPickleActor" THEN PickleDumps(v) ELSE v

\* UDPActor.__init__ up to "tell the director this is a new actor"
NewUDPActor(peer) ==
    [peer |-> peer,
     timeout |-> udpTimeout,
     timerObj |-> udpTimeout > 0,       \* self.timer is not None
     timerWhen |-> IF udpTimeout > 0
                   THEN install_task(now + udpTimeout) ELSE NoTime,
     idleRuns |-> 0,                    \* idle_timeout() callbacks run
     sendFails |-> 0,                   \* history: sends to the peer that
                                        \* ended in an error handler
     adds |-> 0, dels |-> 0, errs |-> 0]  \* sap_request notifications

\* UDPDirector.add_actor
UdpAddActor(st, i) ==
    [peers |-> DictSet(st.peers, st.actors[i].peer, i),
     actors |-> [st.actors EXCEPT ![i].adds = @ + 1]]

\* UDPDirector.del_actor (229-236): del self.peers[actor.peer], whichever
\* actor the entry holds, then the observer is told.  Without an entry for
\* the peer (the timer of an actor that was removed ran again) the del
\* raises KeyError in the timer's callback and the observer is not told.
UdpDelActor(st, i) ==
    IF st.actors[i].peer \notin DOMAIN st.peers THEN st
    ELSE [peers |-> DictDel(st.peers, st.actors[i].peer),
          actors |-> [st.actors EXCEPT ![i].dels = @ + 1]]

\* UDPActor.indication: reschedule the timer (the PDU goes to the queue)
UdpActorIndication(a) ==
    [a EXCEPT !.timerWhen = IF a.timerObj
                            THEN install_task(now + a.timeout) ELSE @]

\* UDPActor.response (71-79), and UDPPickleActor.response (131-142) before
\* it: reschedule the timer and pass the PDU to director.response.  The
\* pickle actor unpickles the data first and returns when that fails.  up
\* is the list of the PDUs passed upstream.
UdpActorResponse(a, src, data) ==
    IF udpActorClass = "UDPPickleActor" /\ data.form # "pickle"
    THEN [actor |-> a, up |-> <<>>]
    ELSE [actor |-> [a EXCEPT !.timerWhen =
                        IF a.timerObj THEN install_task(now + a.timeout)
                        ELSE @],
          up |-> <<[source |-> src,
                    data |-> IF udpActorClass = "UDPPickleActor"
                             THEN PickleLoads(data) ELSE data,
                    at |-> now]>>]

\* the actor of peer addr, made when the director has none:
\* self.peers.get(addr) or self.actorClass(self, addr)
UdpGetActor(st, addr) ==
    LET i == IF addr \in DOMAIN st.peers THEN st.peers[addr]
             ELSE Len(st.actors) + 1
    IN  [i |-> i,
         st |-> IF addr \in DOMAIN st.peers THEN st
                ELSE UdpAddActor([st EXCEPT !.actors =
                                     Append(@, NewUDPActor(addr))], i)]

\* the director's state the actor methods work on
UdpState == [peers |-> udpPeers, actors |-> udpActors]

\* director.request: the PDUs put in the queue and not taken from it
UdpQueue == SubSeq(udpRequest, udpTaken + 1, Len(udpRequest))

\* UDPDirector.close (210-213)
UdpDirectorClose(transport) == IF transport = "none" THEN "none" ELSE "closed"

UdpInit ==
    /\ udpActorClass \in UdpActorClasses
    /\ udpTimeout \in IdleTimeouts
    /\ udpTransport = "none"
    /\ udpStarting = TRUE
    /\ udpCloseCalled = FALSE
    /\ udpLost = "no"
    /\ udpPeers = EmptyDict
    /\ udpActors = <<>>
    /\ udpRequest = <<>>
    /\ udpTaken = 0
    /\ udpStalled = FALSE
    /\ udpSent = <<>>
    /\ udpDeferred = <<>>
    /\ udpUp = <<>>
    /\ udpErrors = 0
    /\ udpEvents = 0

\* start_protocol completes: UDPDirectorProtocol.connection_made
UdpConnectionMade ==
    /\ ~udpStalled
    /\ udpStarting
    /\ udpStarting' = FALSE
    /\ udpTransport' = "open"
    /\ UNCHANGED <<udpActorClass, udpTimeout, udpCloseCalled, udpLost,
                   udpPeers, udpActors, udpRequest, udpTaken, udpStalled,
                   udpSent, udpDeferred, udpUp, udpErrors,
                   udpEvents, now, stpVars, srvVars, cliVars, bindVars, evVars>>

\* start_protocol fails: self.handle_error(err)
UdpProtocolError ==
    /\ ~udpStalled
    /\ udpStarting
    /\ udpEvents < MaxEvents
    /\ udpEvents' = udpEvents + 1
    /\ udpStarting' = FALSE
    /\ udpErrors' = udpErrors + 1
    /\ UNCHANGED <<udpActorClass, udpTimeout, udpTransport, udpCloseCalled,
                   udpLost, udpPeers, udpTaken, udpStalled,
                   udpActors, udpRequest, udpSent, udpDeferred, udpUp, now,
                   stpVars, srvVars, cliVars, bindVars, evVars>>

\* what the socket does with a datagram it is asked to send: "sent", it
\* takes it; "error", the send fails with an OSError; "fatal", it fails with
\* another exception (an address the socket cannot use)
SendOutcomes == {"sent", "error", "fatal"}

\* What transport.sendto(data, addr) of the director's transport comes to,
\* given what the socket does:
\*   "dropped"  an empty datagram: sendto returns before it uses the socket;
\*              or a fatal failure on a transport that is closing: the
\*              exception goes to the loop's handler, and the transport,
\*              closed already, does nothing more;
\*   "raised"   connection_lost has run and the socket is released: sendto
\*              raises, and indication calls director.handle_error;
\*   "sent"     the datagram is on its way; a transport that was closed
\*              still sends until connection_lost has released its socket;
\*   "error"    the transport gives the OSError to error_received, which
\*              calls director.handle_error;
\*   "fatal"    the transport closes itself and reports the exception later
\*              with connection_lost.
UdpSendto(data, out) ==
    IF data.form = "empty" THEN "dropped"
    ELSE IF udpLost = "done" THEN "raised"
    ELSE IF out = "fatal" /\ udpTransport = "closed" THEN "dropped"
    ELSE out

\* UDPDirector.indication (321-348).  A transport that is absent is not
\* used at all.
UdpIndication(dst, kind, out) ==
    /\ ~udpStalled
    /\ udpEvents < MaxEvents
    /\ udpEvents' = udpEvents + 1
    /\ LET pdu == [destination |-> dst,
                   data |-> UdpPduData(UdpPayload(kind, udpEvents + 1))]
           g == UdpGetActor(UdpState, dst)
           res == IF udpTransport = "none" THEN "unused"
                  ELSE UdpSendto(pdu.data, out)
           failed == res \in {"raised", "error"}
       IN  /\ udpPeers' = g.st.peers
           /\ udpActors' = [g.st.actors EXCEPT
                               ![g.i] = UdpActorIndication(@),
                               ![g.i].sendFails = IF failed THEN @ + 1 ELSE @]
           /\ udpRequest' = Append(udpRequest, pdu)
           /\ udpSent' = IF res = "sent" THEN Append(udpSent, pdu) ELSE udpSent
           /\ udpErrors' = IF failed THEN udpErrors + 1 ELSE udpErrors
           /\ IF res = "fatal"
              THEN udpTransport' = "closed" /\ udpLost' = "dueExc"
              ELSE UNCHANGED <<udpTransport, udpLost>>
    /\ UNCHANGED <<udpActorClass, udpTimeout, udpStarting, udpCloseCalled,
                   udpTaken, udpStalled, udpDeferred, udpUp, now,
                   stpVars, srvVars, cliVars, bindVars, evVars>>

\* The application calls director.handle_write() (281-301).  request.get()
\* blocks while the queue is empty: the call does not return, and nothing
\* else runs on its thread.  Otherwise the PDU taken from the queue goes to
\* the socket itself, not to the transport: an empty datagram is sent as
\* any other, a socket that was released raises socket.error, and so does a
\* send that fails with an OSError.  The error goes to the actor of the
\* destination when the director has one (UDPActor.handle_error tells the
\* observer actor_error), else to director.handle_error.  Another
\* exception is not caught and ends the call.
UdpHandleWrite(out) ==
    /\ ~udpStalled
    /\ udpEvents < MaxEvents
    /\ udpEvents' = udpEvents + 1
    /\ IF UdpQueue = <<>>
       THEN /\ udpStalled' = TRUE
            /\ UNCHANGED <<udpTaken, udpSent, udpActors, udpErrors>>
       ELSE LET pdu == Head(UdpQueue)
                res == IF out = "fatal" THEN "fatal"
                       ELSE IF udpLost = "done" THEN "error"
                       ELSE out
                known == pdu.destination \in DOMAIN udpPeers
            IN  /\ udpTaken' = udpTaken + 1
                /\ udpStalled' = FALSE
                /\ udpSent' = IF res = "sent" THEN Append(udpSent, pdu)
                              ELSE udpSent
                /\ udpActors' = IF res = "error" /\ known
                                THEN [udpActors EXCEPT
                                         ![udpPeers[pdu.destination]].errs =
                                             @ + 1,
                                         ![udpPeers[pdu.destination]].sendFails
                                             = @ + 1]
                                ELSE udpActors
                /\ udpErrors' = IF res = "error" /\ ~known
                                THEN udpErrors + 1 ELSE udpErrors
    /\ UNCHANGED <<udpActorClass, udpTimeout, udpTransport, udpStarting,
                   udpCloseCalled, udpLost, udpPeers, udpRequest,
                   udpDeferred, udpUp, now,
                   stpVars, srvVars, cliVars, bindVars, evVars>>

\* UDPDirectorProtocol.datagram_received: the delivery is deferred
UdpDatagramReceived(src, form) ==
    /\ ~udpStalled
    /\ udpTransport = "open"
    /\ udpEvents < MaxEvents
    /\ udpEvents' = udpEvents + 1
    /\ udpDeferred' = Append(udpDeferred,
                             [source |-> src,
                              data |-> Received(form, udpEvents + 1)])
    /\ UNCHANGED <<udpActorClass, udpTimeout, udpTransport, udpStarting,
                   udpCloseCalled, udpLost, udpTaken, udpStalled,
                   udpPeers, udpActors, udpRequest, udpSent, udpUp, udpErrors,
                   now, stpVars, srvVars, cliVars, bindVars, evVars>>

\* The k-th deferred call runs: director.response(pdu) passes the PDU
\* upstream.  The order in which deferred calls are run is not fixed here.
UdpRunDeferred(k) ==
    /\ ~udpStalled
    /\ k \in 1..Len(udpDeferred)
    /\ udpUp' = Append(udpUp, [source |-> udpDeferred[k].source,
                               data |-> udpDeferred[k].data,
                               at |-> now])     \* at: when it was passed up
    /\ udpDeferred' = SubSeq(udpDeferred, 1, k - 1)
                          \o SubSeq(udpDeferred, k + 1, Len(udpDeferred))
    /\ UNCHANGED <<udpActorClass, udpTimeout, udpTransport, udpStarting,
                   udpCloseCalled, udpLost, udpTaken, udpStalled,
                   udpPeers, udpActors, udpRequest, udpSent, udpErrors,
                   udpEvents, now, stpVars, srvVars, cliVars, bindVars, evVars>>

\* The application calls director._response(pdu) (350-363) with a PDU whose
\* pduSource is src: the PDU goes to the actor of src, made if need be
Udp_response(src, form) ==
    /\ ~udpStalled
    /\ udpEvents < MaxEvents
    /\ udpEvents' = udpEvents + 1
    /\ LET g == UdpGetActor(UdpState, src)
           r == UdpActorResponse(g.st.actors[g.i], src,
                                 Received(form, udpEvents + 1))
       IN  /\ udpPeers' = g.st.peers
           /\ udpActors' = [g.st.actors EXCEPT ![g.i] = r.actor]
           /\ udpUp' = udpUp \o r.up
    /\ UNCHANGED <<udpActorClass, udpTimeout, udpTransport, udpStarting,
                   udpCloseCalled, udpLost, udpTaken, udpStalled,
                   udpRequest, udpSent, udpDeferred, udpErrors,
                   now, stpVars, srvVars, cliVars, bindVars, evVars>>

\* The application calls actor.response(pdu) on an actor it was told of by
\* add_actor, with a PDU whose pduSource is src
UdpResponse(i, src, form) ==
    /\ ~udpStalled
    /\ udpEvents < MaxEvents
    /\ udpEvents' = udpEvents + 1
    /\ LET r == UdpActorResponse(udpActors[i], src,
                                 Received(form, udpEvents + 1))
       IN  /\ udpActors' = [udpActors EXCEPT ![i] = r.actor]
           /\ udpUp' = udpUp \o r.up
    /\ UNCHANGED <<udpActorClass, udpTimeout, udpTransport, udpStarting,
                   udpCloseCalled, udpLost, udpTaken, udpStalled, udpPeers,
                   udpRequest, udpSent, udpDeferred, udpErrors,
                   now, stpVars, srvVars, cliVars, bindVars, evVars>>

\* The application calls actor.handle_error(error) (81-86) on an actor it
\* was told of: director.actor_error when there is an error
UdpHandleError(i, error) ==
    /\ ~udpStalled
    /\ udpEvents < MaxEvents
    /\ udpEvents' = udpEvents + 1
    /\ udpActors' = IF error = None THEN udpActors
                    ELSE [udpActors EXCEPT ![i].errs = @ + 1]
    /\ UNCHANGED <<udpActorClass, udpTimeout, udpTransport, udpStarting,
                   udpCloseCalled, udpLost, udpTaken, udpStalled, udpPeers,
                   udpRequest, udpSent, udpDeferred, udpUp, udpErrors,
                   now, stpVars, srvVars, cliVars, bindVars, evVars>>

\* UDPDirectorProtocol.error_received(exc): director.handle_error(exc)
UdpErrorReceived ==
    /\ ~udpStalled
    /\ udpTransport = "open"
    /\ udpEvents < MaxEvents
    /\ udpEvents' = udpEvents + 1
    /\ udpErrors' = udpErrors + 1
    /\ UNCHANGED <<udpActorClass, udpTimeout, udpTransport, udpStarting,
                   udpCloseCalled, udpLost, udpTaken, udpStalled,
                   udpPeers, udpActors, udpRequest, udpSent, udpDeferred,
                   udpUp, now, stpVars, srvVars, cliVars, bindVars, evVars>>

\* The loop reports the end of the transport:
\* UDPDirectorProtocol.connection_lost(exc) (111-114), with the exception
\* that closed it, if one did; the transport has released its socket then.
UdpConnectionLost ==
    /\ ~udpStalled
    /\ udpLost \in {"due", "dueExc"}
    /\ udpEvents < MaxEvents
    /\ udpEvents' = udpEvents + 1
    /\ udpLost' = "done"
    /\ udpErrors' = IF udpLost = "dueExc" THEN udpErrors + 1 ELSE udpErrors
    /\ UNCHANGED <<udpActorClass, udpTimeout, udpTransport, udpStarting,
                   udpCloseCalled, udpPeers, udpActors, udpRequest, udpSent,
                   udpTaken, udpStalled,
                   udpDeferred, udpUp, now, stpVars, srvVars, cliVars,
                   bindVars, evVars>>

\* The timer of actor i fires: UDPActor.idle_timeout (55-59)
UdpIdleFire(i) ==
    /\ ~udpStalled
    /\ Due(udpActors[i].timerWhen)
    /\ LET fired == [udpActors EXCEPT ![i].timerWhen = NoTime,
                                      ![i].idleRuns = @ + 1]
           st == UdpDelActor([peers |-> udpPeers, actors |-> fired], i)
       IN  /\ udpPeers' = st.peers
           /\ udpActors' = st.actors
    /\ UNCHANGED <<udpActorClass, udpTimeout, udpTransport, udpStarting,
                   udpCloseCalled, udpLost, udpTaken, udpStalled,
                   udpRequest, udpSent, udpDeferred, udpUp, udpErrors,
                   udpEvents, now, stpVars, srvVars, cliVars, bindVars, evVars>>

\* The application calls director.close(): without a transport nothing is
\* closed, and a later call closes the transport made since; closing a
\* transport that is closed changes nothing
UdpClose ==
    /\ ~udpStalled
    /\ udpEvents < MaxEvents
    /\ udpEvents' = udpEvents + 1
    /\ udpCloseCalled' = TRUE
    /\ udpTransport' = UdpDirectorClose(udpTransport)
    /\ udpLost' = IF udpTransport = "open" THEN "due" ELSE udpLost
    /\ UNCHANGED <<udpActorClass, udpTimeout, udpStarting, udpPeers,
                   udpActors, udpRequest, udpTaken, udpStalled,
                   udpSent, udpDeferred, udpUp, udpErrors, now, stpVars,
                   srvVars, cliVars, bindVars, evVars>>

UdpTick ==
    /\ now < MaxTime
    /\ \E i \in 1..Len(udpActors) : udpActors[i].timerWhen # NoTime
    /\ \A i \in 1..Len(udpActors) : ~Due(udpActors[i].timerWhen)
    /\ now' = now + 1
    /\ UNCHANGED <<udpVars, stpVars, srvVars, cliVars, bindVars, evVars>>

UdpNext ==
    \/ UdpConnectionMade
    \/ UdpProtocolError
    \/ \E dst \in Addr, kind \in PduKinds, out \in SendOutcomes :
           UdpIndication(dst, kind, out)
    \/ \E out \in SendOutcomes : UdpHandleWrite(out)
    \/ \E src \in Addr, form \in {"pickle", "garbage"} :
           UdpDatagramReceived(src, form)
    \/ \E k \in 1..Len(udpDeferred) : UdpRunDeferred(k)
    \/ \E src \in Addr, form \in {"pickle", "garbage"} :
           Udp_response(src, form)
    \/ \E i \in 1..Len(udpActors), src \in Addr,
          form \in {"pickle", "garbage"} : UdpResponse(i, src, form)
    \/ \E i \in 1..Len(udpActors), error \in {None, "error"} :
           UdpHandleError(i, error)
    \/ UdpErrorReceived
    \/ UdpConnectionLost
    \/ \E i \in 1..Len(udpActors) : UdpIdleFire(i)
    \/ UdpClose
    \/ UdpTick

-----------------------------------------------------------------------------
\* TCPClientDirector and its TCPClientActors.  A byte string is a sequence of
\* tokens; the PDU of the n-th call carries <<n>>.  TCPClient.__init__ calls
\* the coroutine function connect() without awaiting it, and no
\* TCPClientProtocol can be constructed, so no callback of a protocol runs;
\* handle_connect, response and close of an actor are public and are calls
\* of the application.

\* TCPClientActor.__init__ up to "tell the director this is a new actor"
NewClientActor(peer) ==
    [peer |-> peer,
     connected |-> FALSE,
     transport |-> "none",              \* "none", "open" or "closed"
     request |-> <<>>,
     connectObj |-> cliConnectTimeout # 0,  \* connect_timeout_task not None
     connectWhen |-> IF cliConnectTimeout # 0
                     THEN install_task(now + cliConnectTimeout) ELSE NoTime,
     idleObj |-> cliIdleTimeout # 0,    \* idle_timeout_task is not None
     idleWhen |-> IF cliIdleTimeout # 0
                  THEN install_task(now + cliIdleTimeout) ELSE NoTime,
     flushObj |-> FALSE,                \* flush_task is not None
     flushRef |-> FALSE,                \* the OneShotFunction flush_task
                                        \* refers to is scheduled
     flushTasks |-> 0,                  \* OneShotFunction(self.flush) objects
                                        \* that are scheduled
     flushWhen |-> FALSE,               \* flushTasks > 0
     closes |-> 0,                      \* handle_close() calls
     adds |-> 0, dels |-> 0, errs |-> 0,    \* sap_request notifications
     written |-> <<>>,                  \* bytes handed to transport.write
     submitted |-> <<>>]                \* bytes accepted while connecting

CliState ==
    [clients |-> cliClients, reconnect |-> cliReconnect,
     actors |-> cliActors, tasks |-> cliTasks, raised |-> None,
     birth |-> cliBirth, removedAt |-> cliRemovedAt]

\* TCPClientDirector.add_actor
CliAddActor(st, i) ==
    [st EXCEPT !.clients = DictSet(@, st.actors[i].peer, i),
               !.actors[i].adds = @ + 1]

\* self.actorClass(self, address); by: who asked for the actor
CliNewActor(st, address, by) ==
    CliAddActor(
        [st EXCEPT
            !.actors = Append(@, NewClientActor(address)),
            !.birth = Append(@, [by |-> by, born |-> now,
                                 after |-> st.removedAt[address],
                                 clean |-> cliClean[address],
                                 backoff |-> DictGet(st.reconnect, address, 0)]),
            !.removedAt[address] = NoTime],
        Len(st.actors) + 1)

\* connect_task.install_task(_time() + self.reconnect[actor.peer])
ReconnectWhenNow(backoff) == install_task(now)
ReconnectWhen(backoff) == install_task(now + backoff)

\* TCPClientDirector.del_actor (570-584)
CliDelActor(st, i) ==
    LET peer == st.actors[i].peer
        s1 == [st EXCEPT !.clients = DictDel(@, peer),
                         !.actors[i].dels = @ + 1,
                         !.removedAt[peer] = now]
    IN  IF peer \notin DOMAIN st.clients
        THEN [st EXCEPT !.raised = "KeyError"]
        ELSE IF peer \in DOMAIN st.reconnect
        THEN [s1 EXCEPT !.tasks =
                 Append(@, [peer |-> peer,
                            when |-> ReconnectWhen(st.reconnect[peer])])]
        ELSE s1

\* TCPClientActor.handle_close (438-459); TCPClient has no handle_close, so
\* the last statement raises AttributeError after the actor is removed
CliHandleClose(st, i) ==
    LET a == st.actors[i]
        left == IF a.flushObj /\ a.flushRef
                THEN a.flushTasks - 1 ELSE a.flushTasks
        a1 == [a EXCEPT !.flushRef = FALSE,
                        !.flushTasks = left,
                        !.flushWhen = left > 0,
                        !.connectWhen = suspend_task, !.connectObj = FALSE,
                        !.idleWhen = suspend_task, !.idleObj = FALSE,
                        !.closes = @ + 1]
        s1 == CliDelActor([st EXCEPT !.actors[i] = a1], i)
    IN  IF s1.raised = "KeyError" THEN s1
        ELSE [s1 EXCEPT !.raised = "AttributeError"]

\* TCPClientDirector.connect (597-608)
CliDirectorConnect(st, address, reconnect, by) ==
    IF address \in DOMAIN st.clients THEN st
    ELSE LET s1 == CliNewActor(st, address, by)
         IN  IF reconnect # 0
             THEN [s1 EXCEPT !.reconnect = DictSet(@, address, reconnect)]
             ELSE s1

\* TCPClient.indication (146-157)
ClientIndication(a, data) ==
    IF a.transport # "none" /\ a.connected
    THEN [a EXCEPT !.request = <<>>,
                   !.written = IF a.transport = "open" THEN @ \o data ELSE @]
    ELSE [a EXCEPT !.request = data]

\* an indication that does not look at the flush task
CliActorIndicationWhileFlushing(a, data) ==
    ClientIndication(
        [a EXCEPT !.idleWhen = IF a.idleObj
                               THEN install_task(now + cliIdleTimeout)
                               ELSE @,
                  !.submitted = IF a.transport = "none"
                                THEN @ \o data ELSE @],
        data)

\* TCPClientActor.indication (473-486)
CliActorIndication(a, data) ==
    IF a.flushObj THEN a
    ELSE ClientIndication(
             [a EXCEPT !.idleWhen = IF a.idleObj
                                    THEN install_task(now + cliIdleTimeout)
                                    ELSE @,
                       !.submitted = IF a.transport = "none"
                                     THEN @ \o data ELSE @],
             data)

\* TCPClientActor.flush (501-513).  "self.flush_task = None" drops the
\* reference and suspends nothing: a OneShotFunction that was scheduled
\* stays scheduled beside the new one.
CliActorFlush(st, i) ==
    IF st.actors[i].request # <<>>
    THEN [st EXCEPT !.actors[i].flushObj = TRUE,
                    !.actors[i].flushRef = TRUE,
                    !.actors[i].flushTasks = @ + 1,
                    !.actors[i].flushWhen = TRUE]
    ELSE CliHandleClose([st EXCEPT !.actors[i].flushObj = FALSE,
                                   !.actors[i].flushRef = FALSE], i)

\* reconnect values passed to connect() (0: do not reconnect)
Backoffs == {0, 1}

CliInit ==
    /\ cliConnectTimeout \in IdleTimeouts
    /\ cliIdleTimeout \in IdleTimeouts
    /\ cliClients = EmptyDict
    /\ cliReconnect = EmptyDict
    /\ cliActors = <<>>
    /\ cliTasks = <<>>
    /\ cliRaised = None
    /\ cliUp = <<>>
    /\ cliEvents = 0
    /\ cliBirth = <<>>
    /\ cliClean = [a \in Addr |-> FALSE]
    /\ cliDisconnected = [a \in Addr |-> FALSE]
    /\ cliRemovedAt = [a \in Addr |-> NoTime]

\* the state a call of the director or of a callback leaves
CliCommit(st) ==
    /\ cliClients' = st.clients
    /\ cliReconnect' = st.reconnect
    /\ cliActors' = st.actors
    /\ cliTasks' = st.tasks
    /\ cliRaised' = st.raised
    /\ cliBirth' = st.birth
    /\ cliRemovedAt' = st.removedAt

\* The application calls director.connect(address, reconnect)
CliConnect(address, reconnect) ==
    /\ cliEvents < MaxCalls
    /\ cliEvents' = cliEvents + 1
    /\ CliCommit(CliDirectorConnect(CliState, address, reconnect, "connect"))
    /\ cliClean' = [cliClean EXCEPT ![address] =
                       /\ reconnect # 0
                       /\ address \notin DOMAIN cliClients
                       /\ \A k \in 1..Len(cliTasks) : cliTasks[k].peer # address]
    /\ cliDisconnected' = [cliDisconnected EXCEPT ![address] =
                               IF reconnect # 0 THEN FALSE ELSE @]
    /\ UNCHANGED <<cliConnectTimeout, cliIdleTimeout, cliUp, now, stpVars, srvVars,
                   udpVars, bindVars, evVars>>

\* The application calls director.disconnect(address) (610-620)
CliDisconnect(address) ==
    /\ cliEvents < MaxCalls
    /\ cliEvents' = cliEvents + 1
    /\ IF address \notin DOMAIN cliClients
       THEN CliCommit(CliState)
       ELSE CliCommit(CliHandleClose(
                [CliState EXCEPT !.reconnect = DictDel(@, address)],
                cliClients[address]))
    /\ cliClean' = [cliClean EXCEPT ![address] = FALSE]
    /\ cliDisconnected' = [cliDisconnected EXCEPT ![address] = TRUE]
    /\ UNCHANGED <<cliConnectTimeout, cliIdleTimeout, cliUp, now, stpVars, srvVars,
                   udpVars, bindVars, evVars>>

\* The layer above sends a PDU: TCPClientDirector.indication (622-636)
CliIndication(dst) ==
    /\ cliEvents < MaxCalls
    /\ cliEvents' = cliEvents + 1
    /\ LET i == IF dst \in DOMAIN cliClients THEN cliClients[dst]
                ELSE Len(cliActors) + 1
           st1 == IF dst \in DOMAIN cliClients THEN CliState
                  ELSE CliNewActor(CliState, dst, "indication")
       IN  CliCommit([st1 EXCEPT !.actors[i] =
                         CliActorIndication(@, <<cliEvents + 1>>)])
    /\ cliClean' = [cliClean EXCEPT ![dst] = FALSE]
    /\ UNCHANGED cliDisconnected
    /\ UNCHANGED <<cliConnectTimeout, cliIdleTimeout, cliUp, now, stpVars, srvVars,
                   udpVars, bindVars, evVars>>

\* The coroutine TCPClient.connect (117-128) of actor i is run on the loop.
\* The constructor drops the coroutine it makes, so this happens only when
\* the application schedules actor.connect() itself.  create_connection
\* fails, or it connects and the protocol factory fails: TCPClientProtocol
\* cannot be constructed, the __init__ its class body ends up with (180-182)
\* raises NameError.  Either way connect() calls handle_error(err)
\* (424-436), which tells the director: actor_error.  No transport is ever
\* attached and no callback of the protocol ever runs.
CliConnectRun(i) ==
    /\ cliEvents < MaxCalls
    /\ cliEvents' = cliEvents + 1
    /\ cliActors' = [cliActors EXCEPT ![i].errs = @ + 1]
    /\ cliRaised' = None
    /\ UNCHANGED <<cliConnectTimeout, cliIdleTimeout, cliUp, cliClients,
                   cliReconnect, cliTasks, cliBirth, cliClean,
                   cliDisconnected, cliRemovedAt, now, stpVars, srvVars,
                   udpVars, bindVars, evVars>>

\* connect_timeout_task fires: TCPClientActor.connect_timeout (461-465)
CliConnectTimeoutFire(i) ==
    /\ Due(cliActors[i].connectWhen)
    /\ CliCommit(CliHandleClose(CliState, i))
    /\ UNCHANGED <<cliConnectTimeout, cliIdleTimeout, cliUp, cliEvents, cliClean,
                   cliDisconnected, now, stpVars, srvVars, udpVars, bindVars,
                   evVars>>

\* idle_timeout_task fires: TCPClientActor.idle_timeout (467-471)
CliIdleFire(i) ==
    /\ Due(cliActors[i].idleWhen)
    /\ CliCommit(CliHandleClose(CliState, i))
    /\ UNCHANGED <<cliConnectTimeout, cliIdleTimeout, cliUp, cliEvents, cliClean,
                   cliDisconnected, now, stpVars, srvVars, udpVars, bindVars,
                   evVars>>

\* TCPClientActor.handle_connect (407-422), TCPClient.handle_connect after it
CliActorHandleConnect(a) ==
    IF a.connected THEN a
    ELSE [a EXCEPT !.connectWhen = IF a.connectObj THEN suspend_task ELSE @,
                   !.connectObj = FALSE,
                   !.connected = TRUE]

\* The application calls actor.handle_connect() on an actor it was told of
\* by add_actor
CliHandleConnect(i) ==
    /\ cliEvents < MaxCalls
    /\ cliEvents' = cliEvents + 1
    /\ cliActors' = [cliActors EXCEPT ![i] = CliActorHandleConnect(@)]
    /\ cliRaised' = None
    /\ UNCHANGED <<cliConnectTimeout, cliIdleTimeout, cliUp, cliClients,
                   cliReconnect, cliTasks, cliBirth, cliClean,
                   cliDisconnected, cliRemovedAt, now, stpVars, srvVars,
                   udpVars, bindVars, evVars>>

\* TCPClientActor.response (488-499): the peer becomes the source, the idle
\* timer is rescheduled and the PDU goes to director.response
CliActorResponse(a, data) ==
    [actor |-> [a EXCEPT !.idleWhen = IF a.idleObj
                                      THEN install_task(now + cliIdleTimeout)
                                      ELSE @],
     up |-> [source |-> a.peer, data |-> data]]

\* The application calls actor.response(pdu) on an actor it was told of
CliResponse(i) ==
    /\ cliEvents < MaxCalls
    /\ cliEvents' = cliEvents + 1
    /\ LET r == CliActorResponse(cliActors[i], cliEvents + 1)
       IN  /\ cliActors' = [cliActors EXCEPT ![i] = r.actor]
           /\ cliUp' = Append(cliUp, r.up)
    /\ cliRaised' = None
    /\ UNCHANGED <<cliConnectTimeout, cliIdleTimeout, cliClients,
                   cliReconnect, cliTasks, cliBirth, cliClean,
                   cliDisconnected, cliRemovedAt, now, stpVars, srvVars,
                   udpVars, bindVars, evVars>>

\* TCPClient.close (133-136): the transport is closed when there is one
ClientClose(a) ==
    [a EXCEPT !.transport = IF @ = "none" THEN "none" ELSE "closed"]

\* The application calls actor.close() on an actor it was told of
CliClose(i) ==
    /\ cliEvents < MaxCalls
    /\ cliEvents' = cliEvents + 1
    /\ cliActors' = [cliActors EXCEPT ![i] = ClientClose(@)]
    /\ cliRaised' = None
    /\ UNCHANGED <<cliConnectTimeout, cliIdleTimeout, cliUp, cliClients,
                   cliReconnect, cliTasks, cliBirth, cliClean,
                   cliDisconnected, cliRemovedAt, now, stpVars, srvVars,
                   udpVars, bindVars, evVars>>

\* The application calls actor.flush() on an actor it was told of by
\* add_actor, whether or not handle_close has run on it
CliFlush(i) ==
    /\ cliEvents < MaxCalls
    /\ cliEvents' = cliEvents + 1
    /\ CliCommit(CliActorFlush(CliState, i))
    /\ UNCHANGED <<cliConnectTimeout, cliIdleTimeout, cliUp, cliClean,
                   cliDisconnected, now, stpVars, srvVars, udpVars, bindVars,
                   evVars>>

\* The OneShotFunction(self.flush) of actor i runs
CliFlushRun(i) ==
    /\ cliActors[i].flushTasks > 0
    /\ CliCommit(CliActorFlush(
           [CliState EXCEPT !.actors[i].flushTasks = @ - 1,
                            !.actors[i].flushWhen = cliActors[i].flushTasks > 1],
           i))
    /\ UNCHANGED <<cliConnectTimeout, cliIdleTimeout, cliUp, cliEvents, cliClean,
                   cliDisconnected, now, stpVars, srvVars, udpVars, bindVars,
                   evVars>>

\* A FunctionTask(self.connect, peer) installed by del_actor fires
CliReconnectFire(k) ==
    /\ Due(cliTasks[k].when)
    /\ CliCommit(CliDirectorConnect(
           [CliState EXCEPT !.tasks = SubSeq(@, 1, k - 1)
                                      \o SubSeq(@, k + 1, Len(@))],
           cliTasks[k].peer, 0, "task"))
    /\ UNCHANGED <<cliConnectTimeout, cliIdleTimeout, cliUp, cliEvents, cliClean,
                   cliDisconnected, now, stpVars, srvVars, udpVars, bindVars,
                   evVars>>

CliTick ==
    /\ now < MaxTime
    /\ \/ cliTasks # <<>>
       \/ \E i \in 1..Len(cliActors) :
              cliActors[i].connectWhen # NoTime \/ cliActors[i].idleWhen # NoTime
    /\ \A k \in 1..Len(cliTasks) : ~Due(cliTasks[k].when)
    /\ \A i \in 1..Len(cliActors) :
           ~Due(cliActors[i].connectWhen) /\ ~Due(cliActors[i].idleWhen)
    /\ now' = now + 1
    /\ UNCHANGED <<cliVars, stpVars, srvVars, udpVars, bindVars, evVars>>

CliNext ==
    \/ \E a \in Addr, r \in Backoffs : CliConnect(a, r)
    \/ \E a \in Addr : CliDisconnect(a)
    \/ \E a \in Addr : CliIndication(a)
    \/ \E i \in 1..Len(cliActors) : CliConnectRun(i)
    \/ \E i \in 1..Len(cliActors) : CliHandleConnect(i)
    \/ \E i \in 1..Len(cliActors) : CliResponse(i)
    \/ \E i \in 1..Len(cliActors) : CliClose(i)
    \/ \E i \in 1..Len(cliActors) : CliConnectTimeoutFire(i)
    \/ \E i \in 1..Len(cliActors) : CliIdleFire(i)
    \/ \E i \in 1..Len(cliActors) : CliFlush(i)
    \/ \E i \in 1..Len(cliActors) : CliFlushRun(i)
    \/ \E k \in 1..Len(cliTasks) : CliReconnectFire(k)
    \/ CliTick

-----------------------------------------------------------------------------
\* TCPServerDirector.__init__ (938-961): the bind loop and the listen call
\* after it.  The call blocks in _sleep between attempts; each step below
\* is one statement of the loop.

\* for i in range(30)
BindAttempts == 30
\* REBIND_SLEEP_INTERVAL
REBIND_SLEEP_INTERVAL == 2

\* socket errors bind may raise; all are caught by "except socket.error"
BindErrors == {"EADDRINUSE", "EACCES"}

\* what self.socket.listen(listeners) does after a bind that succeeded: it
\* returns, or raises OSError (EADDRINUSE when another socket bound to the
\* same address with SO_REUSEADDR is already listening)
ListenOutcomes == {"ok", "error"}

\* the for loop is exhausted when i has run through range(30)
BindLoopDone(i) == i = BindAttempts

BindInit ==
    /\ bindReuse \in BOOLEAN
    /\ bindPhase = "try"
    /\ bindI = 0
    /\ bindCalls = 0
    /\ bindErr = None
    /\ bindHadErrors = FALSE
    /\ bindSlept = 0

\* self.socket.bind(address) succeeds: break, then self.socket.listen (957),
\* which is outside the try.  When listen returns the director listens and
\* start_serving is scheduled; when it raises, the OSError leaves the
\* constructor: no retry, no sleep, and the director does not listen.  Two
\* sockets can be bound to one address only when both set SO_REUSEADDR.
BindSucceeds(lis) ==
    /\ bindPhase = "try"
    /\ lis = "error" => bindReuse
    /\ bindCalls' = bindCalls + 1
    /\ bindPhase' = IF lis = "ok" THEN "listening" ELSE "listenError"
    /\ bindErr' = IF lis = "ok" THEN bindErr ELSE "EADDRINUSE"
    /\ UNCHANGED <<bindReuse, bindI, bindHadErrors, bindSlept, now,
                   stpVars, srvVars, udpVars, cliVars, evVars>>

\* self.socket.bind(address) raises socket.error
BindFails(err) ==
    /\ bindPhase = "try"
    /\ bindCalls' = bindCalls + 1
    /\ bindErr' = err
    /\ bindHadErrors' = TRUE
    /\ bindPhase' = "sleep"
    /\ UNCHANGED <<bindReuse, bindI, bindSlept, now, stpVars, srvVars,
                   udpVars, cliVars, evVars>>

\* _sleep(REBIND_SLEEP_INTERVAL) returns and the loop goes on, or is
\* exhausted: raise RuntimeError("unable to bind")
BindSleepDone ==
    /\ bindPhase = "sleep"
    /\ bindSlept' = bindSlept + REBIND_SLEEP_INTERVAL
    /\ bindI' = bindI + 1
    /\ bindPhase' = IF BindLoopDone(bindI + 1) THEN "failed" ELSE "try"
    /\ UNCHANGED <<bindReuse, bindCalls, bindErr, bindHadErrors, now,
                   stpVars, srvVars, udpVars, cliVars, evVars>>

BindNext ==
    \/ \E lis \in ListenOutcomes : BindSucceeds(lis)
    \/ \E err \in BindErrors : BindFails(err)
    \/ BindSleepDone

-----------------------------------------------------------------------------
\* WaitableEvent (event_modern.py): a pipe the loop watches with add_reader
\* and an asyncio.Event.  set(), clear() and the callbacks of the loop run
\* on the loop's thread, one at a time.

\* WaitableEvent.wait_sync(0), which is isSet(): select on _read_fd
isSet == evPipe > 0

\* the awaitable wait() returns when self._event is set
WaitCompletes == evEvent

\* the most recent of the set() and clear() calls
LastCall == IF evCalls = <<>> THEN None ELSE evCalls[Len(evCalls)]

\* WaitableEvent.__init__ (18-25)
EvInit ==
    /\ evPipe = 0
    /\ evEvent = FALSE
    /\ evReady = FALSE
    /\ evStalled = FALSE
    /\ evCalls = <<>>

\* WaitableEvent.set (58-62)
EvSet ==
    /\ ~evStalled
    /\ Len(evCalls) < MaxEvCalls
    /\ evCalls' = Append(evCalls, "set")
    /\ IF ~isSet
       THEN evPipe' = evPipe + 1 /\ evEvent' = TRUE
       ELSE UNCHANGED <<evPipe, evEvent>>
    /\ UNCHANGED <<evReady, evStalled, now, stpVars, srvVars, udpVars,
                   cliVars, bindVars>>

\* WaitableEvent.clear (64-68)
EvClear ==
    /\ ~evStalled
    /\ Len(evCalls) < MaxEvCalls
    /\ evCalls' = Append(evCalls, "clear")
    /\ IF isSet
       THEN evPipe' = evPipe - 1 /\ evEvent' = FALSE
       ELSE UNCHANGED <<evPipe, evEvent>>
    /\ UNCHANGED <<evReady, evStalled, now, stpVars, srvVars, udpVars,
                   cliVars, bindVars>>

\* The loop's selector reports _read_fd readable: the callback registered
\* by add_reader (25) joins the ready queue, behind the callbacks that are
\* already in it.
EvSelect ==
    /\ ~evStalled
    /\ isSet
    /\ ~evReady
    /\ evReady' = TRUE
    /\ UNCHANGED <<evPipe, evEvent, evStalled, evCalls, now, stpVars,
                   srvVars, udpVars, cliVars, bindVars>>

\* The loop runs the queued callback: WaitableEvent._handle_read (33-37).
\* os.read on the empty pipe does not return: the pipe of os.pipe() is a
\* blocking one.
EvHandleRead ==
    /\ ~evStalled
    /\ evReady
    /\ evReady' = FALSE
    /\ IF evPipe = 0
       THEN evStalled' = TRUE /\ UNCHANGED <<evPipe, evEvent>>
       ELSE evPipe' = evPipe - 1 /\ evEvent' = TRUE /\ UNCHANGED evStalled
    /\ UNCHANGED <<evCalls, now, stpVars, srvVars, udpVars, cliVars,
                   bindVars>>

EvNext ==
    \/ EvSet
    \/ EvClear
    \/ EvSelect
    \/ EvHandleRead

-----------------------------------------------------------------------------
\* Each specification starts every component as its constructor leaves it
\* and then runs one component.
Init ==
    /\ STPInit
    /\ now = 0
    /\ SrvInit
    /\ UdpInit
    /\ CliInit
    /\ BindInit
    /\ EvInit

\* StreamToPacket alone: the directors stay as constructed, without timers
InitSTP ==
    /\ Init
    /\ srvActorClass = "TCPServerActor"
    /\ srvIdleTimeout = 0 /\ udpTimeout = 0
    /\ cliConnectTimeout = 0 /\ cliIdleTimeout = 0
    /\ bindReuse = FALSE
    /\ udpActorClass = "UDPActor"

\* the TCP server director alone
InitServer ==
    /\ Init
    /\ udpTimeout = 0 /\ cliConnectTimeout = 0 /\ cliIdleTimeout = 0
    /\ bindReuse = FALSE
    /\ udpActorClass = "UDPActor"

\* the UDP director alone
InitUDP ==
    /\ Init
    /\ srvActorClass = "TCPServerActor"
    /\ srvIdleTimeout = 0 /\ cliConnectTimeout = 0 /\ cliIdleTimeout = 0
    /\ bindReuse = FALSE

\* the TCP client director alone
InitClient ==
    /\ Init
    /\ srvActorClass = "TCPServerActor"
    /\ srvIdleTimeout = 0 /\ udpTimeout = 0
    /\ bindReuse = FALSE
    /\ udpActorClass = "UDPActor"

\* the constructor of the TCP server director alone
InitBind ==
    /\ Init
    /\ srvActorClass = "TCPServerActor"
    /\ srvIdleTimeout = 0 /\ udpTimeout = 0
    /\ cliConnectTimeout = 0 /\ cliIdleTimeout = 0
    /\ udpActorClass = "UDPActor"

\* one WaitableEvent alone
InitEvent ==
    /\ Init
    /\ srvActorClass = "TCPServerActor"
    /\ srvIdleTimeout = 0 /\ udpTimeout = 0
    /\ cliConnectTimeout = 0 /\ cliIdleTimeout = 0
    /\ bindReuse = FALSE
    /\ udpActorClass = "UDPActor"

SpecSTP == InitSTP /\ [][STPNext]_vars

SpecServer == InitServer /\ [][SrvNext]_vars

SpecUDP == InitUDP /\ [][UdpNext]_vars

SpecClient == InitClient /\ [][CliNext]_vars

SpecBind == InitBind /\ [][BindNext]_vars

SpecEvent == InitEvent /\ [][EvNext]_vars

\* The client director with everything the code has scheduled running in
\* the end: installed tasks fire, the clock reaches them and one-shot
\* functions run.  Calls of the application are not forced; in particular
\* nothing runs connect(), since TCPClient.__init__ drops the coroutine it
\* returns.
CliFairness ==
    /\ WF_vars(CliTick)
    /\ WF_vars(\E i \in 1..Len(cliActors) : CliConnectTimeoutFire(i))
    /\ WF_vars(\E i \in 1..Len(cliActors) : CliIdleFire(i))
    /\ WF_vars(\E i \in 1..Len(cliActors) : CliFlushRun(i))
    /\ WF_vars(\E k \in 1..Len(cliTasks) : CliReconnectFire(k))

SpecClientFair == InitClient /\ [][CliNext]_vars /\ CliFairness

-----------------------------------------------------------------------------
\* What a peer's connection has carried, as the peer sees it
Stream(p) == Concat([i \in 1..Len(sentFrames[p]) |-> Encode(sentFrames[p][i])])

\* the offset in Stream(p) at which the n-th frame of p ends
RECURSIVE EndOf(_, _)
EndOf(p, n) == IF n = 0 THEN 0 ELSE EndOf(p, n - 1) + 1 + Len(sentFrames[p][n])

\* the number of frames of p that lie wholly in the bytes delivered so far
FramesDone(p) ==
    CHOOSE n \in 0..Len(sentFrames[p]) :
        /\ EndOf(p, n) <= delivered[p]
        /\ \A m \in 0..Len(sentFrames[p]) : EndOf(p, m) <= delivered[p] => m <= n

\* C2: whatever the chunks confirmation received, the PDUs passed upstream
\* for a peer are the frames that peer has sent and that are wholly
\* delivered, once each and in the order sent; when the whole stream is
\* delivered they are exactly all its frames.
C2_FramesOnceInOrder ==
    \A p \in Addr :
        /\ stpUp[p] = SubSeq(sentFrames[p], 1, FramesDone(p))
        /\ wire[p] = <<>> => stpUp[p] = sentFrames[p]

\* C2 witness: a 3-byte frame and a 2-byte frame, delivered in chunks of at
\* most MaxChunk bytes, have both come out.
C2_Witness ==
    \E p \in Addr :
        /\ sentFrames[p] = << <<2, 1>>, <<1>> >>
        /\ wire[p] = <<>>
        /\ delivered[p] = 5
        /\ stpUp[p] = sentFrames[p]

\* C3: after confirmation, the upstream buffer of the source holds exactly
\* the delivered bytes that follow the last complete frame, and it is empty
\* if and only if the delivered bytes end on a frame boundary.
C3_BufferIsPartialFrame ==
    \A p \in Addr :
        delivered[p] > 0 =>
            /\ p \in DOMAIN upstreamBuffer
            /\ upstreamBuffer[p] =
                   SubSeq(Stream(p), EndOf(p, FramesDone(p)) + 1, delivered[p])
            /\ (upstreamBuffer[p] = <<>>) <=>
                   (\E n \in 0..Len(sentFrames[p]) : EndOf(p, n) = delivered[p])

\* C3 witness: a chunk ended inside the second frame of a peer.
C3_Witness ==
    \E p \in Addr :
        /\ delivered[p] = 4
        /\ sentFrames[p] = << <<1>>, <<2, 1>> >>
        /\ upstreamBuffer[p] = <<2, 2>>
        /\ stpUp[p] = << <<1>> >>

-----------------------------------------------------------------------------
\* Actors of the server director that were constructed and not closed
SrvLive(peer) ==
    {i \in 1..Len(srvActors) : srvActors[i].peer = peer /\ srvActors[i].closes = 0}

\* C1: a director has at most one live actor (created, handle_close not yet
\* called) for an address.  It fails: a second connection from an address
\* replaces the map entry and leaves the earlier actor open with its timer.
C1_AtMostOneLiveActor ==
    \A peer \in Addr : Cardinality(SrvLive(peer)) <= 1

\* C7: the observer is told del_actor at most once for an actor, and an
\* actor whose handle_close has run has been reported exactly once.  It
\* fails: a deferred response re-arms the idle timer of a closed server
\* actor, and the second timeout reports del_actor again.
C7_DelActorExactlyOnce ==
    \A i \in 1..Len(srvActors) :
        /\ srvActors[i].dels <= 1
        /\ srvActors[i].closes > 0 => srvActors[i].dels = 1

\* C8: after handle_close() of an actor none of its timers runs its
\* callback again.  It fails for the same reason as C7.
C8_NoTimerCallbackAfterClose ==
    \A i \in 1..Len(srvActors) : srvActors[i].lateRuns = 0

\* C10: once the director is closed nothing is delivered upstream and no
\* indication hands bytes to a transport.  It fails: close() closes the
\* listening socket only.
C10_NothingDeliveredAfterClose ==
    [][srvSocket = "closed" =>
          /\ srvUp' = srvUp
          /\ \A i \in 1..Len(srvActors) :
                 srvActors'[i].written = srvActors[i].written]_vars

\* C9: after close() the director has released its actor map (get_actor is
\* None for every address) and no actor still has a timer installed.  It
\* fails: UDPDirector.close only closes the transport.
C9_CloseReleasesActors ==
    udpCloseCalled =>
        /\ udpPeers = EmptyDict
        /\ \A i \in 1..Len(udpActors) : udpActors[i].timerWhen = NoTime

IsPrefix(s, t) == Len(s) <= Len(t) /\ SubSeq(t, 1, Len(s)) = s

\* C4: the bytes an actor accepted by indication while it had no transport
\* are all in its request buffer, in submission order, until the connection
\* is made, and are the first bytes written to the transport once it is.
\* It fails: TCPClient.indication assigns the buffer, so a second PDU
\* replaces the first (and no connection is ever made to write it to).
C4_ConnectingBytesRetained ==
    \A i \in 1..Len(cliActors) :
        IF cliActors[i].transport = "none"
        THEN cliActors[i].request = cliActors[i].submitted
        ELSE IsPrefix(cliActors[i].submitted, cliActors[i].written)

\* the PDUs of a log that are addressed to d
ToDestination(log, d) == SelectSeq(log, LAMBDA pdu : pdu.destination = d)

\* C5: in a run without socket errors and without close(), the datagrams
\* handed to the transport for a destination are, in order, the first PDUs
\* submitted by indication for that destination: a PDU is never handed over
\* while an earlier one for the same destination has not been.  It fails: a
\* PDU submitted before start_protocol has completed is dropped.
C5_HandedInSubmissionOrder ==
    (udpErrors = 0 /\ ~udpCloseCalled /\ udpTransport # "closed") =>
        \A d \in Addr : IsPrefix(ToDestination(udpSent, d),
                                 ToDestination(udpRequest, d))

C11_ReplacedActorIsClosed ==
    \A i, j \in 1..Len(srvActors) :
        (i < j /\ srvActors[i].peer = srvActors[j].peer) =>
            /\ srvActors[i].closes > 0
            /\ srvActors[i].idleWhen = NoTime
            /\ srvActors[i].transport # "open"

\* C12: an actor the observer was told actor_error for has been closed: it
\* is not the actor the map holds for its peer and del_actor was notified.
\* It fails: TCPServerActor.handle_error only tells the director.
C12_ErrorClosesActor ==
    \A i \in 1..Len(srvActors) :
        srvActors[i].errs > 0 =>
            /\ srvActors[i].closes > 0
            /\ srvActors[i].dels > 0
            /\ DictGet(srvServers, srvActors[i].peer, 0) # i

\* C13: in every state, indication for a destination that has no actor
\* raises RuntimeError and leaves the servers map and every actor (so also
\* what was written to its transport) as they were, and creates no actor.
C13_IndicationWithoutActorRaises ==
    \A dst \in Addr, kind \in PduKinds, src \in Sources,
       out \in WriteOutcomes :
        dst \notin DOMAIN srvServers =>
            LET r == SrvDirectorIndication(SrvState, dst, kind,
                                           srvEvents + 1, src, out)
            IN  /\ r.raised = "RuntimeError"
                /\ r.servers = srvServers
                /\ r.actors = srvActors

\* C13 witness: indication to a2 has just raised while a1 is connected, and
\* a2 has no actor and nothing was written
C13_Witness ==
    /\ srvRaised = "RuntimeError"
    /\ DOMAIN srvServers = {"a1"}
    /\ Len(srvActors) = 1
    /\ srvActors[1].transport = "open"
    /\ srvActors[1].written = <<>>
    /\ srvEvents = 2

\* C14: a step on the actor of one peer p of the UDP director (a PDU sent
\* to p, whatever becomes of its datagram; the idle timeout of the actor of
\* p; an error reported for it) leaves the actor of every other peer as it
\* was, with its timer, leaves the entry of every other peer in the map as
\* it was, and, when another peer has an actor in the map, leaves the
\* transport that carries the traffic to and from the other peers as it
\* was.  It fails: the director has one transport for all its peers, and a
\* datagram for p that the socket refuses with an exception other than
\* OSError closes it.
C14_SiblingsUntouched ==
    [][\A p \in Addr :
          (\/ /\ Len(udpRequest') > Len(udpRequest)
              /\ udpRequest'[Len(udpRequest')].destination = p
           \/ \E i \in 1..Len(udpActors) :
                  /\ udpActors[i].peer = p
                  /\ \/ udpActors'[i].idleRuns > udpActors[i].idleRuns
                     \/ udpActors'[i].errs > udpActors[i].errs
                     \/ udpActors'[i].sendFails > udpActors[i].sendFails) =>
              /\ \A j \in 1..Len(udpActors) :
                     udpActors[j].peer # p => udpActors'[j] = udpActors[j]
              /\ \A q \in Addr \ {p} :
                     DictGet(udpPeers', q, 0) = DictGet(udpPeers, q, 0)
              /\ (\E q \in Addr \ {p} : q \in DOMAIN udpPeers) =>
                     udpTransport' = udpTransport]_vars

\* C15: an actor in the map of a director with timeout T > 0 has its timer
\* installed for no earlier than T after the last PDU from its peer was
\* passed upstream.  It fails: datagram_received hands the PDU to
\* director.response, not to the actor, so the timer is not re-armed.
C15_ReceiveRearmsIdleTimer ==
    \A k \in 1..Len(udpUp) :
        LET p == udpUp[k].source
        IN  (udpTimeout > 0 /\ p \in DOMAIN udpPeers) =>
                /\ udpActors[udpPeers[p]].timerWhen # NoTime
                /\ udpActors[udpPeers[p]].timerWhen >= udpUp[k].at + udpTimeout

\* C16: every PDU passed upstream came through the actor of its source, so
\* an actor for that source has been created (and add_actor notified).  It
\* fails: datagram_received defers director.response, not _response.
C16_ReceivedThroughActor ==
    \A k \in 1..Len(udpUp) :
        \E i \in 1..Len(udpActors) :
            udpActors[i].peer = udpUp[k].source /\ udpActors[i].adds = 1

\* C17: until close() and without socket errors, every PDU given to
\* indication has an actor for its destination and was handed to the
\* transport exactly once: the datagrams sent are the PDUs submitted.  It
\* fails before start_protocol has set the transport.
C17_IndicationSendsOnce ==
    (udpErrors = 0 /\ ~udpCloseCalled /\ udpTransport # "closed") =>
        /\ udpSent = udpRequest
        /\ \A k \in 1..Len(udpRequest) :
               \E i \in 1..Len(udpActors) :
                   udpActors[i].peer = udpRequest[k].destination

\* C18: every failed send to a peer was given to that peer's actor and the
\* observer was told actor_error for it.  It fails: indication passes the
\* exception to director.handle_error, which does nothing.
C18_SendErrorReachesActor ==
    \A i \in 1..Len(udpActors) :
        udpActors[i].errs >= udpActors[i].sendFails

\* C19: whenever the server director passes a PDU upstream, it is the PDU
\* of a deferred call, and its source is the peer address of the actor
\* whose connection received its bytes.
C19_UpstreamSourceIsPeer ==
    [][srvUp' # srvUp =>
          \E k \in 1..Len(srvDeferred) :
              srvUp' = Append(srvUp,
                  [source |-> srvActors[srvDeferred[k].actor].peer,
                   data |-> srvDeferred[k].data])]_vars

\* C19 witness: with actors for a1 and a2, bytes received on the connection
\* of a2 were passed upstream with source a2
C19_Witness ==
    /\ Len(srvActors) = 2
    /\ srvActors[1].peer = "a1" /\ srvActors[2].peer = "a2"
    /\ srvUp = << [source |-> "a2", data |-> 3] >>
    /\ srvDeferred = <<>>

\* C20: every PDU a server actor has handled in indication has a source
\* when the actor is done with it (the bound address if none was supplied).
\* It fails: the definition of indication the class has does not set it.
C20_IndicationSetsSource ==
    \A i \in 1..Len(srvActors) :
        \A k \in 1..Len(srvActors[i].sources) : srvActors[i].sources[k] # None

\* the data of the PDUs of out, in order
DataOf(out) == [k \in 1..Len(out) |-> out[k].data]

\* C21: in every state, indication of a PDU that has a source and a
\* destination emits the frames, and leaves the downstream buffers, that
\* the same data sent to the same destination without a source would.  It
\* fails: packetize also chops the buffer of the source.
C21_BothAddressesFramedOnce ==
    \A s \in Addr, d \in Addr, data \in DownChunks :
        LET both == Packetize(PDU(data, s, d), downstreamBuffer)
            one == Packetize(PDU(data, None, d), downstreamBuffer)
        IN  /\ DataOf(both.out) = DataOf(one.out)
            /\ both.sb = one.sb

\* C22: no add_actor, del_actor or PDU makes StreamToPacketSAP or
\* StreamToPacket raise.  It fails: del_actor for a peer without buffers
\* raises KeyError.
C22_LifecycleNeverRaises == stpRaised = None

\* C23: the observer was told add_actor exactly once for every actor.  It
\* fails: the constructor of TCPServerActor calls director.add_actor and
\* start_serving calls it again.
C23_AddActorOnce ==
    \A i \in 1..Len(srvActors) : srvActors[i].adds = 1

\* C25: the constructor calls bind at most 30 times; the construction ends
\* in one of two ways only: an attempt succeeded after fewer than 30
\* failures and the director listens, or 30 attempts have failed and the
\* terminal error is raised; after either no attempt is made.  It fails:
\* listen is called after the loop and outside its try, so with the address
\* in use by a listening socket a bind that succeeded is followed by an
\* OSError that ends the construction without a retry.
C25_BindAtMostThirtyTimes ==
    /\ bindCalls <= 30
    /\ bindPhase \in {"try", "sleep", "listening", "failed"}
    /\ bindPhase \in {"try", "sleep"} => bindI < 30
    /\ bindPhase = "try" => bindCalls = bindI
    /\ bindPhase = "listening" => bindI < 30 /\ bindCalls = bindI + 1
    /\ bindPhase = "failed" => bindI = 30 /\ bindCalls = 30

\* C26: on a director whose actors are UDPPickleActor, every PDU passed
\* upstream carries a deserialized object: a datagram that is not a pickle
\* is not passed up, and one that is a pickle is passed up unpickled.  It
\* fails: datagram_received hands the bytes to director.response, so
\* UDPPickleActor.response does not run for a datagram.
C26_PickleActorDeserializes ==
    udpActorClass = "UDPPickleActor" =>
        \A k \in 1..Len(udpUp) : udpUp[k].data.form = "value"

\* C27: an actor that is in the map of the client director is in the end
\* connected, or closed and out of the map.  It fails: no connection attempt
\* is started, and without a connect timeout nothing ends the waiting.
C27_LeavesConnecting ==
    \A a \in Addr :
        (a \in DOMAIN cliClients) ~>
            (\/ a \notin DOMAIN cliClients
             \/ cliActors[cliClients[a]].connected)

\* C28: an actor on which flush() was called is closed in the end.  It
\* fails: flush re-schedules itself while self.request holds data, and
\* nothing sends that data.
C28_FlushCloses ==
    \A i \in 1..MaxCalls :
        (i <= Len(cliActors) /\ cliActors[i].flushObj) ~>
            (i <= Len(cliActors) /\ cliActors[i].closes > 0)

\* C29: the actor the client director's map holds for a peer is connecting
\* or connected: it is not one whose connection ended with an error.  It
\* fails: handle_error only reports actor_error; the actor whose connection
\* attempt failed stays in the map and takes the next indication.
C29_MapHoldsNoDeadActor ==
    \A a \in DOMAIN cliClients :
        cliActors[cliClients[a]].errs = 0

\* C30: once the observer was told del_actor for an actor of the client
\* director, no step tells it anything more about that actor, and no step
\* tells it actor_error or del_actor for an actor it was not told add_actor
\* for.  It fails: closing an actor does not stop its connection attempt,
\* and when that ends with an error handle_error reports actor_error after
\* del_actor.
C30_NotificationOrder ==
    [][\A i \in 1..Len(cliActors) :
          /\ cliActors[i].dels > 0 =>
                 /\ cliActors'[i].adds = cliActors[i].adds
                 /\ cliActors'[i].errs = cliActors[i].errs
                 /\ cliActors'[i].dels = cliActors[i].dels
          /\ cliActors[i].adds = 0 =>
                 /\ cliActors'[i].errs = 0
                 /\ cliActors'[i].dels = 0]_vars

\* C32: every step in which the director's handle_error runs on an open
\* transport (error_received, or a send error without an actor) leaves the
\* transport closed.  It fails: the handle_error that is in effect (the
\* second definition, 318-319) does nothing.
C32_SocketErrorClosesTransport ==
    [][(udpErrors' > udpErrors /\ udpTransport = "open")
           => udpTransport' = "closed"]_vars

\* C33: a step that does not notify del_actor for the actor the server
\* director's map holds for an address leaves that address in the map.  It
\* fails: del_actor deletes servers[actor.peer] whichever actor the entry
\* refers to, so the close of a replaced actor removes its successor.
C33_DelActorRemovesOwnEntry ==
    [][\A a \in DOMAIN srvServers :
          LET i == srvServers[a]
          IN  srvActors'[i].dels = srvActors[i].dels
                  => (a \in DOMAIN srvServers' /\ srvServers'[a] >= i)]_vars

\* C34: a step in which the connect task of del_actor creates an actor for
\* an address is not taken while disconnect(address) is the last word of the
\* application about reconnecting to it.  It fails: disconnect returns at
\* once when the address has no actor, so a disconnect during the backoff
\* interval leaves the reconnect entry and the installed connect task.
C34_NoReconnectAfterDisconnect ==
    [][(Len(cliBirth') > Len(cliBirth)
            /\ cliBirth'[Len(cliBirth')].by = "task")
           => ~cliDisconnected[cliActors'[Len(cliActors')].peer]]_vars

\* C35: a step that delivers a PDU upstream from a server director does not
\* deliver one whose source is a peer that has no actor in the map and whose
\* del_actor was notified (no add_actor for the peer came since).  It fails:
\* the response deferred by data_received runs after handle_close and passes
\* the PDU to the director all the same.
C35_NoUpstreamAfterDelActor ==
    [][Len(srvUp') > Len(srvUp) =>
          LET p == srvUp'[Len(srvUp')].source
          IN  ~(/\ p \notin DOMAIN srvServers
                /\ \E i \in 1..Len(srvActors) :
                       srvActors[i].peer = p /\ srvActors[i].dels > 0)]_vars

\* C36: an indication given to a client actor whose flush task is pending
\* leaves the actor as it is: nothing is written or put in the request
\* buffer, the idle timer keeps its time, and no other field changes.  (A
\* server actor never has a flush task pending: its request buffer is never
\* filled.)
C36_FlushingDiscardsIndication ==
    \A i \in 1..Len(cliActors) :
        cliActors[i].flushObj =>
            \A n \in 1..MaxCalls :
                CliActorIndication(cliActors[i], <<n>>) = cliActors[i]

\* C36 witness: the actor the map holds for a peer is flushing with the one
\* PDU it took before the flush, after a third call of the application.
C36_Witness ==
    \E a \in DOMAIN cliClients :
        LET x == cliActors[cliClients[a]]
        IN  /\ x.flushObj /\ x.flushWhen
            /\ x.request = <<1>> /\ x.submitted = <<1>> /\ x.written = <<>>
            /\ cliEvents = 3

\* C37: isSet() is true exactly when the most recent of the set() and
\* clear() calls was set(), and wait() completes only then.  It fails:
\* _handle_read takes the byte of set() out of the pipe, after which isSet()
\* is false, and a clear() that finds isSet() false leaves the asyncio
\* event set.
C37_IsSetIsLastCall ==
    ~evStalled =>
        /\ isSet <=> LastCall = "set"
        /\ WaitCompletes => LastCall = "set"

\* C38: the loop's thread is never blocked in os.read on the empty pipe.
\* It fails: a clear() that runs between the selector's report and the
\* callback takes the byte, and _handle_read then reads the empty pipe.
C38_NoReadOfEmptyPipe == ~evStalled

=============================================================================
